---- MODULE Spec2Model ----
(***************************************************************************)
(* Model of the calculation engine's data-plane primitives:                *)
(*   - UltraFastLog  (ultrafast_log.rs): memory-mapped ring log            *)
(*   - OrderBook     (orderbook.rs):     price-level order book            *)
(*   - moving average, price array, counters (cache_optimized.rs)          *)
(*   - L1Cache, UltraFastChannel (cache.rs)                                *)
(*   - NumaScheduler (numa_optimizer.rs): placement, binding, CPU lists    *)
(*   - UltraFastDB   (persistence.rs):   portfolio states by key           *)
(* An f64 of the order book is modelled by a binary float of MantBits       *)
(* significant bits, rounded to nearest, ties to even.                      *)
(***************************************************************************)
EXTENDS Integers, Sequences, FiniteSets, TLC

\* ------------------------------------------------------------------ bounds
\* log2 of the ring size (size_mb * 1024 * 1024 scaled down; a power of two).
SizeExp == 3
\* The cursors are driven up to these values.
MaxWrite == 12
MaxRead == 12
\* Extra bits of the machine word above the ring size (usize is 2^WordExtra * size).
WordExtra == 2
\* Moving average: periods 0..MaxPeriod, at most MaxAdds inputs.
MaxPeriod == 3
MaxAdds == 5
\* Price array: capacities 1..MaxCap.
MaxCap == 2
\* Hot cache: max_capacity and ttl_seconds.
CacheCap == 1
CacheTtl == 4
\* Fast channel: its capacity and the number of send calls.
ChanCap == 2
MaxSends == 4
\* Counters: the number of update_trade and update_price calls.
MaxCalls == 3
\* NUMA: topologies of 1..MaxNodes nodes.
MaxNodes == 6
\* CPU lists: strings of at most MaxStr characters.
MaxStr == 3
\* Persistence: timestamps up to MaxStamp, at most MaxStores stores.
MaxStamp == 10
MaxStores == 3
\* Order book: prices 1..MaxPrice, quantities 1..MaxQty and 2^MantBits, at most
\* MaxSeq mutations of a book.
MaxPrice == 3
MaxQty == 1
MaxSeq == 3
\* Significant bits of a float (53 in an f64), and the bits it keeps below one.
MantBits == 3
FracBits == 2
\* snapshot and vwap are asked for depths 0..MaxDepth.
MaxDepth == 2

RECURSIVE Pow2(_)
Pow2(n) == IF n = 0 THEN 1 ELSE 2 * Pow2(n - 1)

\* Producer threads, and the byte each one's payloads start with.
Threads == {"p1", "p2"}
Bytes == {1, 2}
FirstByte(t) == IF t = "p1" THEN 1 ELSE 2

\* ------------------------------------------------------------ UltraFastLog
VARIABLES
    mmap,           \* the mapped region: offset -> byte
    write_pos,      \* producer cursor W
    read_pos,       \* consumer cursor R
    writes_count,
    bytes_written,
    pc,             \* per thread: where it is inside append / batch_append
    loc,            \* per thread: locals of the call in progress
    ret,            \* the call that returned last: its thread, arguments and result
    live,           \* history: offset -> cursor value of the successful write held there (-1: none)
    clobbered,      \* history: a successful append wrote over bytes the reader had not passed
    appended,       \* history: records of calls that returned Ok, and their bytes
    sizes,          \* history: the payload lengths of the appends issued (0 stands for a batch)
    fault           \* "none", "oob" (a copy ran past the mapping), "segv" (the process died of it)

logvars == <<mmap, write_pos, read_pos, writes_count, bytes_written,
             pc, loc, ret, live, clobbered, appended, sizes, fault>>

size == Pow2(SizeExp)
mask == size - 1
\* usize::MAX + 1
Word == Pow2(WordExtra) * size

RECURSIVE BitAnd(_, _)
BitAnd(a, b) ==
    IF a = 0 \/ b = 0 THEN 0
    ELSE (a % 2) * (b % 2) + 2 * BitAnd(a \div 2, b \div 2)

\* The payload of n bytes b.
Payload(n, b) == [i \in 1..n |-> b]
MaxLen == size \div 4
Payloads == {Payload(n, b) : n \in 1..(MaxLen + 1), b \in Bytes}
\* Batches of one or two items of bytes 2; an item alone may be up to size/2 + 1 long.
Batches ==
    {<<Payload(n, 2)>> : n \in {size \div 2, size \div 2 + 1}}
    \cup {<<Payload(n, 2), Payload(m, 2)>> : n \in {1, MaxLen}, m \in {1, MaxLen}}

RECURSIVE SumLen(_)
SumLen(items) == IF items = <<>> THEN 0 ELSE Len(Head(items)) + SumLen(Tail(items))

NoLoc == [data |-> <<>>, items |-> <<>>, wp |-> 0, rp |-> 0]
NoRet == [t |-> "none", op |-> "none", res |-> "none", pos |-> 0, len |-> 0, data |-> <<>>,
          poss |-> <<>>, wp |-> 0, rp |-> 0, rt |-> FALSE, want |-> <<>>]

\* would_overlap(write_pos, write_len, read_pos)
would_overlap(wpos, write_len, rpos) ==
    LET write_end == BitAnd(wpos + write_len, mask)
        read_pos_masked == BitAnd(rpos, mask)
    IN  IF wpos <= write_end
        THEN wpos <= read_pos_masked /\ read_pos_masked < write_end
        ELSE wpos <= read_pos_masked \/ read_pos_masked < write_end

\* ptr::copy_nonoverlapping(data, mmap + pos, len): the bytes that land inside the mapping.
CopyInto(m, pos, data) ==
    [b \in 0..(size - 1) |->
        IF pos <= b /\ b < pos + Len(data) THEN data[b - pos + 1] ELSE m[b]]

Overruns(pos, n) == pos + n > size

\* Offsets of the mapping a copy of n bytes at pos touches.
Region(pos, n) == {b \in 0..(size - 1) : pos <= b /\ b < pos + n}

\* batch_append, lines 129-139: the loop over the items, from cursor value cur.
RECURSIVE BatchCopyInto(_, _, _)
BatchCopyInto(m, cur, items) ==
    IF items = <<>> THEN m
    ELSE BatchCopyInto(CopyInto(m, BitAnd(cur, mask), Head(items)),
                       cur + Len(Head(items)), Tail(items))

RECURSIVE BatchPositions(_, _)
BatchPositions(cur, items) ==
    IF items = <<>> THEN <<>>
    ELSE <<BitAnd(cur, mask)>> \o BatchPositions(cur + Len(Head(items)), Tail(items))

RECURSIVE BatchOverruns(_, _)
BatchOverruns(cur, items) ==
    /\ items # <<>>
    /\ \/ Overruns(BitAnd(cur, mask), Len(Head(items)))
       \/ BatchOverruns(cur + Len(Head(items)), Tail(items))

\* available_space(): usize arithmetic, so size - (W - R) wraps below 0 (where
\* overflow checks are on, the subtraction panics instead).
available_space ==
    IF write_pos >= read_pos
    THEN (size - (write_pos - read_pos)) % Word
    ELSE read_pos - write_pos

\* stats()
stats == [size |-> size, write_pos |-> write_pos, read_pos |-> read_pos,
          writes_count |-> writes_count, bytes_written |-> bytes_written,
          available_space |-> available_space]

InitLog ==
    /\ mmap = [b \in 0..(size - 1) |-> 0]
    /\ write_pos = 0
    /\ read_pos = 0
    /\ writes_count = 0
    /\ bytes_written = 0
    /\ pc = [t \in Threads |-> "idle"]
    /\ loc = [t \in Threads |-> NoLoc]
    /\ ret = NoRet
    /\ live = [b \in 0..(size - 1) |-> -1]
    /\ clobbered = FALSE
    /\ appended = [records |-> 0, bytes |-> 0]
    /\ sizes = {}
    /\ fault = "none"

Running == fault # "segv"
\* append, line 79: the payload is longer than a quarter of the ring.
TooLargeHalf(data) == Len(data) > size \div 2
TooLarge(data) == Len(data) > size \div 4

\* batch_append, line 145: the records a batch adds to writes_count.
BatchRecordsOne(items) == 1
BatchRecords(items) == Len(items)

\* A thread between calls ("a_done": its append has just returned Ok).
Idle(t) == pc[t] \in {"idle", "a_done"}

\* append, lines 78-84: the size check and the reservation (fetch_add on write_pos).
AppendReserve(t, data) ==
    /\ Running /\ Idle(t)
    /\ IF TooLarge(data)
       THEN /\ ret' = [NoRet EXCEPT !.t = t, !.op = "append",
                            !.res = "DataTooLarge", !.len = Len(data), !.data = data]
            /\ pc' = [pc EXCEPT ![t] = "idle"]
            /\ loc' = [loc EXCEPT ![t] = NoLoc]
            /\ UNCHANGED <<mmap, write_pos, read_pos, writes_count, bytes_written,
                           live, clobbered, appended, sizes, fault>>
       ELSE /\ write_pos + Len(data) <= MaxWrite
            /\ write_pos' = write_pos + Len(data)
            /\ loc' = [loc EXCEPT ![t] = [NoLoc EXCEPT !.data = data, !.wp = write_pos]]
            /\ pc' = [pc EXCEPT ![t] = "a_check"]
            /\ sizes' = sizes \cup {Len(data)}
            /\ UNCHANGED <<mmap, read_pos, writes_count, bytes_written,
                           ret, live, clobbered, appended, fault>>

\* append, lines 85-91: load read_pos and test for overlap.
AppendCheck(t) ==
    /\ Running /\ pc[t] = "a_check"
    /\ LET actual_pos == BitAnd(loc[t].wp, mask)
           data == loc[t].data
       IN  IF would_overlap(actual_pos, Len(data), read_pos)
           THEN /\ ret' = [NoRet EXCEPT !.t = t, !.op = "append",
                                !.res = "BufferFull", !.len = Len(data), !.data = data,
                                !.wp = loc[t].wp, !.rp = read_pos]
                /\ pc' = [pc EXCEPT ![t] = "idle"]
                /\ loc' = [loc EXCEPT ![t] = NoLoc]
           ELSE /\ pc' = [pc EXCEPT ![t] = "a_copy"]
                /\ loc' = [loc EXCEPT ![t].rp = read_pos]
                /\ UNCHANGED ret
    /\ UNCHANGED <<mmap, write_pos, read_pos, writes_count, bytes_written,
                   live, clobbered, appended, sizes, fault>>

\* History beside a copy: does it write over a byte of an earlier successful
\* append that the read cursor has not passed, and who holds each byte after it.
Hits(lv, pos, n) == \E b \in Region(pos, n) : lv[b] >= 0 /\ lv[b] >= read_pos
Mark(lv, pos, n, wp) ==
    [b \in 0..(size - 1) |-> IF b \in Region(pos, n) THEN wp + (b - pos) ELSE lv[b]]

RECURSIVE BatchHits(_, _, _)
BatchHits(lv, cur, items) ==
    /\ items # <<>>
    /\ \/ Hits(lv, BitAnd(cur, mask), Len(Head(items)))
       \/ BatchHits(lv, cur + Len(Head(items)), Tail(items))

RECURSIVE BatchMark(_, _, _)
BatchMark(lv, cur, items) ==
    IF items = <<>> THEN lv
    ELSE BatchMark(Mark(lv, BitAnd(cur, mask), Len(Head(items)), cur),
                   cur + Len(Head(items)), Tail(items))

\* append, lines 94-100: the copy into the mapping and the release fence.
\* A copy that runs past the end of the mapping is undefined behaviour: the
\* process dies of it ("segv") or goes on ("oob").
AppendCopy(t) ==
    /\ Running /\ pc[t] = "a_copy"
    /\ LET actual_pos == BitAnd(loc[t].wp, mask)
           data == loc[t].data
       IN  /\ mmap' = CopyInto(mmap, actual_pos, data)
           /\ live' = Mark(live, actual_pos, Len(data), loc[t].wp)
           /\ clobbered' = (clobbered \/ Hits(live, actual_pos, Len(data)))
           /\ IF Overruns(actual_pos, Len(data))
              THEN fault' \in {"oob", "segv"}
              ELSE fault' = fault
    /\ pc' = [pc EXCEPT ![t] = "a_count"]
    /\ UNCHANGED <<write_pos, read_pos, writes_count, bytes_written, loc, ret,
                   appended, sizes>>

\* append, line 103: writes_count.fetch_add(1).
AppendCount(t) ==
    /\ Running /\ pc[t] = "a_count"
    /\ writes_count' = writes_count + 1
    /\ pc' = [pc EXCEPT ![t] = "a_bytes"]
    /\ UNCHANGED <<mmap, write_pos, read_pos, bytes_written, loc, ret,
                   live, clobbered, appended, sizes, fault>>

\* append, lines 104-106: bytes_written.fetch_add(data_len); Ok(actual_pos).
\* keep: the caller holds on to the payload and the position to read it back next.
AppendReturn(t, keep) ==
    /\ Running /\ pc[t] = "a_bytes"
    /\ bytes_written' = bytes_written + Len(loc[t].data)
    /\ ret' = [NoRet EXCEPT !.t = t, !.op = "append", !.res = "Ok",
                    !.pos = BitAnd(loc[t].wp, mask), !.len = Len(loc[t].data),
                    !.data = loc[t].data, !.wp = loc[t].wp, !.rp = loc[t].rp]
    /\ appended' = [records |-> appended.records + 1,
                    bytes |-> appended.bytes + Len(loc[t].data)]
    /\ pc' = [pc EXCEPT ![t] = IF keep THEN "a_done" ELSE "idle"]
    /\ loc' = [loc EXCEPT ![t] = IF keep THEN loc[t] ELSE NoLoc]
    /\ UNCHANGED <<mmap, write_pos, read_pos, writes_count, live, clobbered, sizes, fault>>

\* batch_append, lines 111-118: the size check and the reservation of the whole batch.
BatchReserve(t, items) ==
    /\ Running /\ Idle(t)
    /\ IF SumLen(items) > size \div 2
       THEN /\ ret' = [NoRet EXCEPT !.t = t, !.op = "batch_append",
                            !.res = "BatchTooLarge", !.len = SumLen(items)]
            /\ pc' = [pc EXCEPT ![t] = "idle"]
            /\ loc' = [loc EXCEPT ![t] = NoLoc]
            /\ UNCHANGED <<mmap, write_pos, read_pos, writes_count, bytes_written,
                           live, clobbered, appended, sizes, fault>>
       ELSE /\ write_pos + SumLen(items) <= MaxWrite
            /\ write_pos' = write_pos + SumLen(items)
            /\ loc' = [loc EXCEPT ![t] = [NoLoc EXCEPT !.items = items, !.wp = write_pos]]
            /\ pc' = [pc EXCEPT ![t] = "b_check"]
            /\ sizes' = sizes \cup {0}
            /\ UNCHANGED <<mmap, read_pos, writes_count, bytes_written,
                           ret, live, clobbered, appended, fault>>

\* batch_append, lines 119-126: load read_pos and test the batch for overlap.
BatchCheck(t) ==
    /\ Running /\ pc[t] = "b_check"
    /\ LET start_pos == loc[t].wp
           total_size == SumLen(loc[t].items)
       IN  IF would_overlap(BitAnd(start_pos, mask), total_size, read_pos)
           THEN /\ ret' = [NoRet EXCEPT !.t = t, !.op = "batch_append",
                                !.res = "BufferFull", !.len = total_size,
                                !.wp = start_pos, !.rp = read_pos]
                /\ pc' = [pc EXCEPT ![t] = "idle"]
                /\ loc' = [loc EXCEPT ![t] = NoLoc]
           ELSE /\ pc' = [pc EXCEPT ![t] = "b_copy"]
                /\ loc' = [loc EXCEPT ![t].rp = read_pos]
                /\ UNCHANGED ret
    /\ UNCHANGED <<mmap, write_pos, read_pos, writes_count, bytes_written,
                   live, clobbered, appended, sizes, fault>>

\* batch_append, lines 129-142: the copies of the items and the release fence.
BatchCopy(t) ==
    /\ Running /\ pc[t] = "b_copy"
    /\ mmap' = BatchCopyInto(mmap, loc[t].wp, loc[t].items)
    /\ live' = BatchMark(live, loc[t].wp, loc[t].items)
    /\ clobbered' = (clobbered \/ BatchHits(live, loc[t].wp, loc[t].items))
    /\ IF BatchOverruns(loc[t].wp, loc[t].items)
       THEN fault' \in {"oob", "segv"}
       ELSE fault' = fault
    /\ pc' = [pc EXCEPT ![t] = "b_count"]
    /\ UNCHANGED <<write_pos, read_pos, writes_count, bytes_written, loc, ret,
                   appended, sizes>>

\* batch_append, line 145: writes_count.fetch_add(items.len()).
BatchCount(t) ==
    /\ Running /\ pc[t] = "b_count"
    /\ writes_count' = writes_count + BatchRecords(loc[t].items)
    /\ pc' = [pc EXCEPT ![t] = "b_bytes"]
    /\ UNCHANGED <<mmap, write_pos, read_pos, bytes_written, loc, ret,
                   live, clobbered, appended, sizes, fault>>

\* batch_append, lines 146-148: bytes_written.fetch_add(total_size); Ok(positions).
BatchReturn(t) ==
    /\ Running /\ pc[t] = "b_bytes"
    /\ bytes_written' = bytes_written + SumLen(loc[t].items)
    /\ ret' = [NoRet EXCEPT !.t = t, !.op = "batch_append", !.res = "Ok",
                    !.pos = BitAnd(loc[t].wp, mask), !.len = SumLen(loc[t].items),
                    !.poss = BatchPositions(loc[t].wp, loc[t].items),
                    !.wp = loc[t].wp, !.rp = loc[t].rp]
    /\ appended' = [records |-> appended.records + Len(loc[t].items),
                    bytes |-> appended.bytes + SumLen(loc[t].items)]
    /\ pc' = [pc EXCEPT ![t] = "idle"]
    /\ loc' = [loc EXCEPT ![t] = NoLoc]
    /\ UNCHANGED <<mmap, write_pos, read_pos, writes_count, live, clobbered, sizes, fault>>

\* read_at(position, length): the outcomes the builds produce, as [res, data].
\* position + length is a usize sum: past usize::MAX it panics where overflow
\* checks are on and wraps where they are off; wrapped, it can pass the bound
\* check, and the copy then reads outside the mapping ("Ub") unless the vector
\* of length bytes cannot be allocated (length > isize::MAX: "Panic").
read_at(position, length) ==
    LET sum == (position + length) % Word
        bytes == [i \in 1..length |-> mmap[position + i - 1]]
    IN  IF position + length >= Word
        THEN {[res |-> "Panic", data |-> <<>>],
              [res |-> IF sum > size THEN "ReadBeyond"
                       ELSE IF length >= Word \div 2 THEN "Panic" ELSE "Ub",
               data |-> <<>>]}
        ELSE IF sum > size
             THEN {[res |-> "ReadBeyond", data |-> <<>>]}
             ELSE {[res |-> "Ok", data |-> bytes]}

\* A thread calls read_at; rt: it reads back the payload its append has just
\* returned the position of.
ReadAt(t, position, length) ==
    /\ Running /\ Idle(t)
    /\ \E r \in read_at(position, length) :
          ret' = [NoRet EXCEPT !.t = t, !.op = "read_at", !.res = r.res,
                       !.pos = position, !.len = length, !.data = r.data,
                       !.rt = (pc[t] = "a_done" /\ position = BitAnd(loc[t].wp, mask)
                                /\ length = Len(loc[t].data)),
                       !.want = IF pc[t] = "a_done" THEN loc[t].data ELSE <<>>,
                       !.wp = loc[t].wp, !.rp = loc[t].rp]
    /\ pc' = [pc EXCEPT ![t] = "idle"]
    /\ loc' = [loc EXCEPT ![t] = NoLoc]
    /\ UNCHANGED <<mmap, write_pos, read_pos, writes_count, bytes_written,
                   live, clobbered, appended, sizes, fault>>

\* advance_read_pos(bytes)
advance_read_pos(bytes) ==
    /\ Running
    /\ read_pos + bytes <= MaxRead
    /\ read_pos' = read_pos + bytes
    /\ UNCHANGED <<mmap, write_pos, writes_count, bytes_written, pc, loc, ret,
                   live, clobbered, appended, sizes, fault>>

\* --------------------------------------------------------------- OrderBook
VARIABLES
    bids,               \* price -> PriceLevel (the BTreeMap of buy levels)
    asks,               \* price -> PriceLevel (the BTreeMap of sell levels)
    best_bid,           \* Option<f64>: <<>> is None, <<p>> is Some(p)
    best_ask,
    sequence,
    total_bid_volume,
    total_ask_volume,
    book_ret            \* the last call and its result

bookvars == <<bids, asks, best_bid, best_ask, sequence,
              total_bid_volume, total_ask_volume, book_ret>>

\* OrderBookManager
VARIABLES
    books,              \* symbol -> OrderBook (the BTreeMap of the manager)
    mgr_ret             \* the last manager call and its result

mgrvars == <<books, mgr_ret>>

corevars == <<logvars, bookvars, mgrvars>>

\* f64 arithmetic. A float is m * 2^e with |m| < 2^MantBits and e >= -FracBits;
\* prices and sizes are held in units of one, quotients in units of 2^-FracBits.
RECURSIVE BitLen(_)
BitLen(x) == IF x = 0 THEN 0 ELSE 1 + BitLen(x \div 2)

\* The float nearest to num/den (num >= 0, den > 0), ties to the even mantissa.
FRoundRat(num, den) ==
    LET q == num \div den
        step == IF q < Pow2(MantBits) THEN 1 ELSE Pow2(BitLen(q) - MantBits)
        k == num \div (den * step)
        rem == num - k * den * step
    IN  IF 2 * rem < den * step THEN k * step
        ELSE IF 2 * rem > den * step THEN (k + 1) * step
        ELSE IF k % 2 = 0 THEN k * step ELSE (k + 1) * step

FRound(x) == IF x >= 0 THEN FRoundRat(x, 1) ELSE 0 - FRoundRat(0 - x, 1)
IsFloat(x) == FRound(x) = x

\* a + b, a - b, a * b as an f64 operation
FAdd(a, b) == FRound(a + b)
FSub(a, b) == FRound(a - b)
FMul(a, b) == FRound(a * b)
\* a / b (b > 0), in units of 2^-FracBits
FDiv(a, b) ==
    IF a >= 0 THEN FRoundRat(a * Pow2(FracBits), b)
    ELSE 0 - FRoundRat((0 - a) * Pow2(FracBits), b)

Prices == 1..MaxPrice
\* order quantities: small ones, and one at the edge of exact addition
Quantities == {q \in 1..MaxQty \cup {Pow2(MantBits)} : IsFloat(q)}
Sides == {"Buy", "Sell"}

SetMax(S) == CHOOSE x \in S : \A y \in S : y <= x
SetMin(S) == CHOOSE x \in S : \A y \in S : x <= y

\* OrderBook::new
InitBook ==
    /\ bids = << >>
    /\ asks = << >>
    /\ best_bid = <<>>
    /\ best_ask = <<>>
    /\ sequence = 0
    /\ total_bid_volume = 0
    /\ total_ask_volume = 0
    /\ book_ret = [op |-> "new", side |-> "none", price |-> 0, quantity |-> 0, res |-> "Ok"]

\* entry(price_key).or_insert_with(..), then size += quantity; order_count += 1
AddToLevel(m, price, quantity) ==
    LET old == IF price \in DOMAIN m THEN m[price]
               ELSE [price |-> price, size |-> 0, order_count |-> 0]
    IN  [p \in DOMAIN m \cup {price} |->
            IF p = price
            THEN [old EXCEPT !.size = FAdd(old.size, quantity),
                             !.order_count = old.order_count + 1]
            ELSE m[p]]

\* BTreeMap::remove
RemoveKeyUpTo(m, price) == [p \in {q \in DOMAIN m : q > price} |-> m[p]]
RemoveKey(m, price) == [p \in DOMAIN m \ {price} |-> m[p]]

\* add_order, line 120: the order improves the cached best bid.
BetterBidNever(price) == best_bid = <<>>
BetterBid(price) == best_bid = <<>> \/ price > best_bid[1]

\* add_order, line 139: the order improves the cached best ask.
BetterAsk(price) == best_ask = <<>> \/ price < best_ask[1]

\* remove_quantity, line 170: keys().next_back()
LastKey(m) == IF DOMAIN m = {} THEN <<>> ELSE <<SetMax(DOMAIN m)>>
\* remove_quantity, line 191: keys().next()
FirstKey(m) == IF DOMAIN m = {} THEN <<>> ELSE <<SetMin(DOMAIN m)>>

\* self.sequence += 1 (lines 99, 150, 328)
NextSeqSame(s) == s
NextSeq(s) == s + 1

\* add_order(order)
add_order(order) ==
    /\ sequence < MaxSeq
    /\ sequence' = NextSeq(sequence)
    /\ book_ret' = [op |-> "add_order", side |-> order.side, price |-> order.price,
                    quantity |-> order.quantity, res |-> "Ok"]
    /\ IF order.side = "Buy"
       THEN /\ bids' = AddToLevel(bids, order.price, order.quantity)
            /\ total_bid_volume' = FAdd(total_bid_volume, order.quantity)
            /\ best_bid' = IF BetterBid(order.price) THEN <<order.price>> ELSE best_bid
            /\ UNCHANGED <<asks, total_ask_volume, best_ask>>
       ELSE /\ asks' = AddToLevel(asks, order.price, order.quantity)
            /\ total_ask_volume' = FAdd(total_ask_volume, order.quantity)
            /\ best_ask' = IF BetterAsk(order.price) THEN <<order.price>> ELSE best_ask
            /\ UNCHANGED <<bids, total_bid_volume, best_bid>>

\* remove_quantity, lines 165 and 186: the level has nothing left.
LevelEmptyStrict(sz) == sz < 0
LevelEmpty(sz) == sz <= 0

\* remove_quantity, lines 158 and 179: the level is smaller than the quantity.
InsufficientOrEqual(sz, quantity) == sz <= quantity
Insufficient(sz, quantity) == sz < quantity

\* remove_quantity on one side: m the side's map, best its cached best price;
\* the result is [res, m, best, removed].
RemoveFrom(side, m, best, price, quantity) ==
    IF price \notin DOMAIN m
    THEN [res |-> "NotFound", m |-> m, best |-> best, removed |-> 0]
    ELSE IF Insufficient(m[price].size, quantity)
    THEN [res |-> "InsufficientSize", m |-> m, best |-> best, removed |-> 0]
    ELSE IF LevelEmpty(FSub(m[price].size, quantity))
    THEN LET left == RemoveKey(m, price)
         IN  [res |-> "Ok", m |-> left,
              best |-> IF <<price>> # best THEN best
                       ELSE IF side = "Buy" THEN LastKey(left) ELSE FirstKey(left),
              removed |-> quantity]
    ELSE [res |-> "Ok", m |-> [m EXCEPT ![price].size = FSub(@, quantity)],
          best |-> best, removed |-> quantity]

\* remove_quantity(side, price, quantity)
remove_quantity(side, price, quantity) ==
    /\ sequence < MaxSeq
    /\ sequence' = NextSeq(sequence)
    /\ IF side = "Buy"
       THEN LET r == RemoveFrom(side, bids, best_bid, price, quantity)
            IN  /\ bids' = r.m
                /\ best_bid' = r.best
                /\ total_bid_volume' = FSub(total_bid_volume, r.removed)
                /\ book_ret' = [op |-> "remove_quantity", side |-> side, price |-> price,
                                quantity |-> quantity, res |-> r.res]
                /\ UNCHANGED <<asks, total_ask_volume, best_ask>>
       ELSE LET r == RemoveFrom(side, asks, best_ask, price, quantity)
            IN  /\ asks' = r.m
                /\ best_ask' = r.best
                /\ total_ask_volume' = FSub(total_ask_volume, r.removed)
                /\ book_ret' = [op |-> "remove_quantity", side |-> side, price |-> price,
                                quantity |-> quantity, res |-> r.res]
                /\ UNCHANGED <<bids, total_bid_volume, best_bid>>

\* clear, lines 324-325: self.best_bid = None
ClearedBestKept(best) == best
ClearedBest(best) == <<>>

\* clear()
clear ==
    /\ sequence < MaxSeq
    /\ bids' = << >>
    /\ asks' = << >>
    /\ best_bid' = ClearedBest(best_bid)
    /\ best_ask' = ClearedBest(best_ask)
    /\ total_bid_volume' = 0
    /\ total_ask_volume' = 0
    /\ sequence' = NextSeq(sequence)
    /\ book_ret' = [op |-> "clear", side |-> "none", price |-> 0, quantity |-> 0, res |-> "Ok"]

\* get_best_bid_offer, line 214: Some(ask - bid)
SpreadReversed(bid, ask) == FSub(bid, ask)
Spread(bid, ask) == FSub(ask, bid)

\* get_best_bid_offer(): Option fields as <<>> / <<v>>; mid_price as twice its value.
get_best_bid_offer ==
    LET bid_level == IF best_bid # <<>> /\ best_bid[1] \in DOMAIN bids
                     THEN <<bids[best_bid[1]]>> ELSE <<>>
        ask_level == IF best_ask # <<>> /\ best_ask[1] \in DOMAIN asks
                     THEN <<asks[best_ask[1]]>> ELSE <<>>
        both == best_bid # <<>> /\ best_ask # <<>>
    IN  [bid_price |-> best_bid,
         bid_size |-> IF bid_level = <<>> THEN <<>> ELSE <<bid_level[1].size>>,
         ask_price |-> best_ask,
         ask_size |-> IF ask_level = <<>> THEN <<>> ELSE <<ask_level[1].size>>,
         spread |-> IF both THEN <<Spread(best_bid[1], best_ask[1])>> ELSE <<>>,
         mid_price_x2 |-> IF both THEN <<FAdd(best_bid[1], best_ask[1])>> ELSE <<>>]

\* The levels of m, best first: iter().rev() for bids, iter() for asks.
RECURSIVE LevelsOf(_, _, _)
LevelsOf(m, S, side) ==
    IF S = {} THEN <<>>
    ELSE LET p == IF side = "Buy" THEN SetMax(S) ELSE SetMin(S)
         IN  <<m[p]>> \o LevelsOf(m, S \ {p}, side)

\* Iterator::take(depth)
TakeAll(levels, depth) == levels
Take(levels, depth) ==
    SubSeq(levels, 1, IF depth < Len(levels) THEN depth ELSE Len(levels))

\* get_level2_snapshot(depth)
get_level2_snapshot(depth) ==
    [bids |-> Take(LevelsOf(bids, DOMAIN bids, "Buy"), depth),
     asks |-> Take(LevelsOf(asks, DOMAIN asks, "Sell"), depth),
     sequence |-> sequence]

\* calculate_vwap, lines 269-271: fold((0.0, 0.0), ..) over the levels taken
RECURSIVE VwapFold(_, _)
VwapFold(levels, n) ==
    IF n = 0 THEN [vol |-> 0, sum |-> 0]
    ELSE LET acc == VwapFold(levels, n - 1)
         IN  [vol |-> FAdd(acc.vol, levels[n].size),
              sum |-> FAdd(acc.sum, FMul(levels[n].price, levels[n].size))]

\* calculate_vwap(side, depth): an Option, Some(v) with v in units of 2^-FracBits
calculate_vwap(side, depth) ==
    LET levels == Take(LevelsOf(IF side = "Buy" THEN bids ELSE asks,
                                DOMAIN (IF side = "Buy" THEN bids ELSE asks), side),
                       depth)
        acc == VwapFold(levels, Len(levels))
    IN  IF acc.vol > 0 THEN <<FDiv(acc.sum, acc.vol)>> ELSE <<>>

\* get_spread_bps(): ((ask - bid) / mid) * 10000.0, in units of 2^-FracBits
get_spread_bps ==
    IF best_bid # <<>> /\ best_ask # <<>>
    THEN LET mid_x2 == FAdd(best_bid[1], best_ask[1])
         IN  IF mid_x2 > 0
             THEN <<FRound(FDiv(2 * FSub(best_ask[1], best_bid[1]), mid_x2) * 10000)>>
             ELSE <<>>
    ELSE <<>>

\* get_statistics()
get_statistics ==
    [bid_levels |-> Cardinality(DOMAIN bids),
     ask_levels |-> Cardinality(DOMAIN asks),
     total_bid_volume |-> total_bid_volume,
     total_ask_volume |-> total_ask_volume,
     spread_bps |-> get_spread_bps,
     mid_price_x2 |-> get_best_bid_offer.mid_price_x2,
     sequence |-> sequence]

\* A read-only call: the book is left alone, book_ret takes the call and its
\* result.
Query(op, side, depth, out) ==
    /\ book_ret' = [op |-> op, side |-> side, price |-> 0, quantity |-> 0,
                    res |-> "Ok", depth |-> depth, out |-> out]
    /\ UNCHANGED <<bids, asks, best_bid, best_ask, sequence,
                   total_bid_volume, total_ask_volume>>

bbo == Query("bbo", "none", 0, get_best_bid_offer)
snapshot(depth) == Query("snapshot", "none", depth, get_level2_snapshot(depth))
vwap(side, depth) == Query("vwap", side, depth, calculate_vwap(side, depth))
book_stats == Query("stats", "none", 0, get_statistics)

Depths == 0..MaxDepth

\* ------------------------------------------------------- OrderBookManager
Symbols == {"AAPL", "MSFT"}

\* OrderBook::new(symbol), as a value
NewBook(symbol) ==
    [symbol |-> symbol, bids |-> << >>, asks |-> << >>,
     best_bid |-> <<>>, best_ask |-> <<>>, sequence |-> 0,
     total_bid_volume |-> 0, total_ask_volume |-> 0]

\* OrderBook::clear on a book of the manager
BookClear(b) ==
    [b EXCEPT !.bids = << >>, !.asks = << >>, !.best_bid = <<>>, !.best_ask = <<>>,
              !.total_bid_volume = 0, !.total_ask_volume = 0,
              !.sequence = NextSeq(b.sequence)]

\* OrderBook::add_order on a book of the manager
BookAddOrder(b, order) ==
    IF order.side = "Buy"
    THEN [b EXCEPT !.sequence = NextSeq(b.sequence),
                   !.bids = AddToLevel(b.bids, order.price, order.quantity),
                   !.total_bid_volume = FAdd(b.total_bid_volume, order.quantity),
                   !.best_bid = IF b.best_bid = <<>> \/ order.price > b.best_bid[1]
                                THEN <<order.price>> ELSE b.best_bid]
    ELSE [b EXCEPT !.sequence = NextSeq(b.sequence),
                   !.asks = AddToLevel(b.asks, order.price, order.quantity),
                   !.total_ask_volume = FAdd(b.total_ask_volume, order.quantity),
                   !.best_ask = IF b.best_ask = <<>> \/ order.price < b.best_ask[1]
                                THEN <<order.price>> ELSE b.best_ask]

\* process_market_data, lines 404-425: one add_order per level, in order
RECURSIVE AddLevels(_, _, _, _)
AddLevels(b, levels, side, n) ==
    IF n = 0 THEN b
    ELSE BookAddOrder(AddLevels(b, levels, side, n - 1),
                      [side |-> side, price |-> levels[n].price,
                       quantity |-> levels[n].size])

\* books.entry(symbol).or_insert_with(|| OrderBook::new(symbol))
Insert(bs, symbol) == (symbol :> NewBook(symbol)) @@ bs
OrInsert(bs, symbol) ==
    IF symbol \in DOMAIN bs THEN bs ELSE (symbol :> NewBook(symbol)) @@ bs

InitManager ==
    /\ books = << >>
    /\ mgr_ret = [op |-> "new", symbol |-> "none", out |-> <<>>]

\* get_or_create_book(symbol); out is the book the returned reference shows
get_or_create_book(symbol) ==
    /\ books' = OrInsert(books, symbol)
    /\ mgr_ret' = [op |-> "get_or_create_book", symbol |-> symbol,
                   out |-> books'[symbol]]

\* get_or_create_book(symbol).add_order(order): the caller adds an order
\* through the reference it was given
AddThroughRef(symbol, order) ==
    LET bs == OrInsert(books, symbol)
    IN  /\ bs[symbol].sequence < MaxSeq
        /\ books' = [bs EXCEPT ![symbol] = BookAddOrder(bs[symbol], order)]
        /\ mgr_ret' = [op |-> "book_add_order", symbol |-> symbol,
                       out |-> books'[symbol]]

\* get_book(symbol)
get_book(symbol) ==
    /\ mgr_ret' = [op |-> "get_book", symbol |-> symbol,
                   out |-> IF symbol \in DOMAIN books THEN <<books[symbol]>> ELSE <<>>]
    /\ UNCHANGED books

\* get_symbols()
get_symbols ==
    /\ mgr_ret' = [op |-> "get_symbols", symbol |-> "none", out |-> DOMAIN books]
    /\ UNCHANGED books

\* OrderBookManager::add_order(order): always Err("Symbol must be provided ..")
manager_add_order(order) ==
    /\ mgr_ret' = [op |-> "add_order", symbol |-> "none", out |-> "Err"]
    /\ UNCHANGED books

\* process_market_data(symbol, bids, asks)
process_market_data(symbol, new_bids, new_asks) ==
    LET bs == OrInsert(books, symbol)
        book == BookClear(bs[symbol])
        with_bids == AddLevels(book, new_bids, "Buy", Len(new_bids))
        with_asks == AddLevels(with_bids, new_asks, "Sell", Len(new_asks))
    IN  /\ bs[symbol].sequence + 1 + Len(new_bids) + Len(new_asks) <= MaxSeq
        /\ books' = [bs EXCEPT ![symbol] = with_asks]
        /\ mgr_ret' = [op |-> "process_market_data", symbol |-> symbol,
                       out |-> books'[symbol]]

\* The level lists fed to process_market_data.
Level(price, sz) == [price |-> price, size |-> sz]
LevelLists == {<<>>, <<Level(1, 1)>>, <<Level(2, 1), Level(1, 2)>>}

\* ------------------------------------------- CacheOptimizedMovingAverage
VARIABLES
    ma_buffer,          \* buffer: index -> f64, indices 0..period-1
    ma_index,
    ma_sum,
    ma_count,
    ma_period,
    ma_filled,
    ma_ret,             \* the last call and its result (avg in units of 2^-FracBits)
    ma_inputs,          \* history: the values added since construction
    ma_exact            \* history: no update of the running sum has rounded

mavars == <<ma_buffer, ma_index, ma_sum, ma_count, ma_period, ma_filled,
            ma_ret, ma_inputs, ma_exact>>

Periods == 0..MaxPeriod
MAValues == {1, 2, Pow2(MantBits)}

\* CacheOptimizedMovingAverage::new: no argument is rejected; a Self is returned.
ma_new(p) ==
    /\ ma_buffer' = [i \in 0..(p - 1) |-> 0]
    /\ ma_index' = 0
    /\ ma_sum' = 0
    /\ ma_count' = 0
    /\ ma_period' = p
    /\ ma_filled' = FALSE
    /\ ma_ret' = [op |-> "new", res |-> "Ok", avg |-> 0]
    /\ ma_inputs' = <<>>
    /\ ma_exact' = TRUE

InitMA ==
    /\ ma_buffer = [i \in 0..(MaxPeriod - 1) |-> 0]
    /\ ma_index = 0
    /\ ma_sum = 0
    /\ ma_count = 0
    /\ ma_period = MaxPeriod
    /\ ma_filled = FALSE
    /\ ma_ret = [op |-> "new", res |-> "Ok", avg |-> 0]
    /\ ma_inputs = <<>>
    /\ ma_exact = TRUE

\* self.sum - old_value + value
ReplaceSumKeep(s, old_value, value) == FAdd(s, value)
ReplaceSum(s, old_value, value) == FAdd(FSub(s, old_value), value)

\* CacheOptimizedMovingAverage::add. With period 0 the buffer is empty and
\* buffer[self.index] panics before anything is written.
add(value) ==
    IF ma_period = 0
    THEN /\ ma_ret' = [op |-> "add", res |-> "Panic", avg |-> 0]
         /\ UNCHANGED <<ma_buffer, ma_index, ma_sum, ma_count, ma_period,
                        ma_filled, ma_inputs, ma_exact>>
    ELSE LET old_value == ma_buffer[ma_index]
             new_sum == IF ma_filled THEN ReplaceSum(ma_sum, old_value, value)
                        ELSE FAdd(ma_sum, value)
             new_count == IF ma_filled THEN ma_count ELSE ma_count + 1
             new_filled == ma_filled \/ new_count = ma_period
             rounded == IF ma_filled
                        THEN \/ ~IsFloat(ma_sum - old_value)
                             \/ ~IsFloat(FSub(ma_sum, old_value) + value)
                        ELSE ~IsFloat(ma_sum + value)
         IN  /\ Len(ma_inputs) < MaxAdds
             /\ ma_buffer' = [ma_buffer EXCEPT ![ma_index] = value]
             /\ ma_sum' = new_sum
             /\ ma_count' = new_count
             /\ ma_filled' = new_filled
             /\ ma_index' = (ma_index + 1) % ma_period
             /\ ma_ret' = [op |-> "add", res |-> "Ok",
                           avg |-> IF new_filled THEN FDiv(new_sum, ma_period)
                                   ELSE FDiv(new_sum, new_count)]
             /\ ma_inputs' = Append(ma_inputs, value)
             /\ ma_exact' = (ma_exact /\ ~rounded)
             /\ UNCHANGED ma_period

\* CacheOptimizedMovingAverage::current_average
current_average ==
    /\ ma_ret' = [op |-> "current_average", res |-> "Ok",
                  avg |-> IF ma_filled THEN FDiv(ma_sum, ma_period)
                          ELSE IF ma_count > 0 THEN FDiv(ma_sum, ma_count)
                          ELSE 0]
    /\ UNCHANGED <<ma_buffer, ma_index, ma_sum, ma_count, ma_period,
                   ma_filled, ma_inputs, ma_exact>>

\* --------------------------------------------- CacheOptimizedPriceArray
VARIABLES
    pa_capacity,
    pa_length,
    pa_prices,          \* the four arrays: index 0..capacity-1 -> value
    pa_volumes,
    pa_timestamps,
    pa_symbols,
    pa_wild,            \* memory outside the prices array has been written
    pa_ret              \* the last call and its result

pavars == <<pa_capacity, pa_length, pa_prices, pa_volumes, pa_timestamps,
            pa_symbols, pa_wild, pa_ret>>

Capacities == 1..MaxCap
\* The records pushed, the slices written and the start indices asked for;
\* the last two starts are the top of the machine word.
MarketRecords ==
    {[price |-> 1, volume |-> 10, timestamp |-> 100, symbol |-> "AAPL"],
     [price |-> 2, volume |-> 20, timestamp |-> 200, symbol |-> "MSFT"]}
NewPrices == {<<>>, <<3>>, <<3, 4>>}
Starts == (0..MaxCap) \cup {Word - 2, Word - 1}
NoData == [price |-> 0, volume |-> 0, timestamp |-> 0, symbol |-> ""]

PaRet(op, res, start, prices, data) ==
    [op |-> op, res |-> res, start |-> start, prices |-> prices, data |-> data]

\* CacheOptimizedPriceArray::new: four zeroed arrays of capacity elements.
pa_new(c) ==
    /\ pa_capacity' = c
    /\ pa_length' = 0
    /\ pa_prices' = [i \in 0..(c - 1) |-> 0]
    /\ pa_volumes' = [i \in 0..(c - 1) |-> 0]
    /\ pa_timestamps' = [i \in 0..(c - 1) |-> 0]
    /\ pa_symbols' = [i \in 0..(c - 1) |-> ""]
    /\ pa_wild' = FALSE
    /\ pa_ret' = PaRet("new", "Ok", 0, <<>>, NoData)

InitArray ==
    /\ pa_capacity = MaxCap
    /\ pa_length = 0
    /\ pa_prices = [i \in 0..(MaxCap - 1) |-> 0]
    /\ pa_volumes = [i \in 0..(MaxCap - 1) |-> 0]
    /\ pa_timestamps = [i \in 0..(MaxCap - 1) |-> 0]
    /\ pa_symbols = [i \in 0..(MaxCap - 1) |-> ""]
    /\ pa_wild = FALSE
    /\ pa_ret = PaRet("new", "Ok", 0, <<>>, NoData)

\* self.length >= self.capacity
IsFullNever(len, cap) == FALSE
IsFull(len, cap) == len >= cap

\* CacheOptimizedPriceArray::push. A store past the capacity is a write outside
\* the allocation.
push(data) ==
    IF IsFull(pa_length, pa_capacity)
    THEN /\ pa_ret' = PaRet("push", "Panic", pa_length, <<>>, data)
         /\ UNCHANGED <<pa_capacity, pa_length, pa_prices, pa_volumes,
                        pa_timestamps, pa_symbols, pa_wild>>
    ELSE /\ IF pa_length < pa_capacity
            THEN /\ pa_prices' = [pa_prices EXCEPT ![pa_length] = data.price]
                 /\ pa_volumes' = [pa_volumes EXCEPT ![pa_length] = data.volume]
                 /\ pa_timestamps' = [pa_timestamps EXCEPT ![pa_length] = data.timestamp]
                 /\ pa_symbols' = [pa_symbols EXCEPT ![pa_length] = data.symbol]
                 /\ UNCHANGED pa_wild
            ELSE /\ pa_wild' = TRUE
                 /\ UNCHANGED <<pa_prices, pa_volumes, pa_timestamps, pa_symbols>>
         /\ pa_length' = pa_length + 1
         /\ pa_ret' = PaRet("push", "Ok", pa_length, <<>>, data)
         /\ UNCHANGED pa_capacity

\* start_idx + new_prices.len(), a usize addition: it wraps in a build without
\* overflow checks and panics in a build with them.
EndIndexExact(start, n) == start + n
EndIndex(start, n) == (start + n) % Word

\* ptr::copy_nonoverlapping(new_prices.as_ptr(), self.prices.add(start_idx), n):
\* element i goes to index start_idx + i of the word-sized address space.
CopyPrices(arr, start, new_prices) ==
    [i \in DOMAIN arr |->
        IF \E k \in DOMAIN new_prices : (start + k - 1) % Word = i
        THEN new_prices[CHOOSE k \in DOMAIN new_prices : (start + k - 1) % Word = i]
        ELSE arr[i]]

\* CacheOptimizedPriceArray::update_prices_vectorized
update_prices_vectorized(start_idx, new_prices) ==
    LET n == Len(new_prices)
        overflow == start_idx + n >= Word
        panic == /\ pa_ret' = PaRet("update_prices", "Panic", start_idx, new_prices, NoData)
                 /\ UNCHANGED <<pa_capacity, pa_length, pa_prices, pa_volumes,
                                pa_timestamps, pa_symbols, pa_wild>>
    IN  IF EndIndex(start_idx, n) > pa_length
        THEN panic
        ELSE \/ overflow /\ panic
             \/ /\ pa_prices' = CopyPrices(pa_prices, start_idx, new_prices)
                /\ pa_wild' = (pa_wild \/ overflow)
                /\ pa_ret' = PaRet("update_prices", IF overflow THEN "Ub" ELSE "Ok",
                                   start_idx, new_prices, NoData)
                /\ UNCHANGED <<pa_capacity, pa_length, pa_volumes,
                               pa_timestamps, pa_symbols>>

\* CacheOptimizedPriceArray::get_prices_slice: the same check; a slice whose
\* start wrapped is a view of memory outside the array.
get_prices_slice(start, len) ==
    LET overflow == start + len >= Word
        panic == pa_ret' = PaRet("get_prices_slice", "Panic", start, <<>>, NoData)
    IN  /\ IF EndIndex(start, len) > pa_length
           THEN panic
           ELSE \/ overflow /\ panic
                \/ pa_ret' = PaRet("get_prices_slice", IF overflow THEN "Ub" ELSE "Ok",
                                   start,
                                   IF overflow THEN <<>>
                                   ELSE [k \in 1..len |-> pa_prices[start + k - 1]],
                                   NoData)
        /\ UNCHANGED <<pa_capacity, pa_length, pa_prices, pa_volumes,
                       pa_timestamps, pa_symbols, pa_wild>>

\* -------------------------------------------------------------- L1Cache
\* L1Cache delegates to a moka::future::Cache built with max_capacity,
\* time_to_live(ttl) and time_to_idle(ttl / 2) and the default (TinyLFU)
\* policy. An insert is visible to get at once and is queued for the cache's
\* maintenance; maintenance admits a queued key when there is room, or when it
\* has been asked for more often than the least recently used admitted key
\* (which is then evicted), and otherwise drops the queued key itself. Of the
\* frequency counters the model keeps whether a key was ever asked for.
VARIABLES
    cache_map,          \* key -> <<>> or <<[value, age, idle]>>, in whole seconds
    cache_pending,      \* inserted keys the maintenance has not yet seen
    cache_admitted,     \* admitted keys, least recently used first
    cache_asked,        \* the keys get was called with
    cache_ret,          \* the last call and its result
    cache_written,      \* history: key -> the last insert not removed since, with its ages
    cache_sized,        \* history: keys dropped for capacity since their last insert
    cache_last          \* history: the key of the last insert (0: none)

cachevars == <<cache_map, cache_pending, cache_admitted, cache_asked, cache_ret,
               cache_written, cache_sized, cache_last>>

CacheKeys == {1, 2}
CacheValues == {1, 2}

\* Duration::from_secs(ttl_seconds / 2)
IdleSecondsZero(ttl_seconds) == 0
IdleSeconds(ttl_seconds) == ttl_seconds \div 2

Entry(value, age, idle) == [value |-> value, age |-> age, idle |-> idle]
Expired(e) == e.age >= CacheTtl \/ e.idle >= IdleSeconds(CacheTtl)
Older(e) == Entry(e.value,
                  IF e.age < CacheTtl THEN e.age + 1 ELSE e.age,
                  IF e.idle < CacheTtl THEN e.idle + 1 ELSE e.idle)
Without(seq, k) == SelectSeq(seq, LAMBDA x : x # k)

InitCache ==
    /\ cache_map = [k \in CacheKeys |-> <<>>]
    /\ cache_pending = <<>>
    /\ cache_admitted = <<>>
    /\ cache_asked = {}
    /\ cache_ret = [op |-> "new", key |-> 0, out |-> <<>>]
    /\ cache_written = [k \in CacheKeys |-> <<>>]
    /\ cache_sized = {}
    /\ cache_last = 0

\* L1Cache::insert
cache_insert(k, v) ==
    /\ cache_map' = [cache_map EXCEPT ![k] = <<Entry(v, 0, 0)>>]
    /\ cache_pending' = Append(Without(cache_pending, k), k)
    /\ cache_ret' = [op |-> "insert", key |-> k, out |-> <<>>]
    /\ cache_written' = [cache_written EXCEPT ![k] = <<Entry(v, 0, 0)>>]
    /\ cache_sized' = cache_sized \ {k}
    /\ cache_last' = k
    /\ UNCHANGED <<cache_admitted, cache_asked>>

\* L1Cache::get: an entry past its time to live or time to idle is not returned.
cache_get(k) ==
    LET hit == cache_map[k] # <<>> /\ ~Expired(cache_map[k][1])
        touch(m) == IF m[k] # <<>> /\ hit
                    THEN [m EXCEPT ![k] = <<[@[1] EXCEPT !.idle = 0]>>]
                    ELSE m
    IN  /\ cache_map' = touch(cache_map)
        /\ cache_written' = touch(cache_written)
        /\ cache_admitted' = IF hit /\ \E i \in DOMAIN cache_admitted : cache_admitted[i] = k
                             THEN Append(Without(cache_admitted, k), k)
                             ELSE cache_admitted
        /\ cache_asked' = cache_asked \cup {k}
        /\ cache_ret' = [op |-> "get", key |-> k,
                         out |-> IF hit THEN <<cache_map[k][1].value>> ELSE <<>>]
        /\ UNCHANGED <<cache_pending, cache_sized, cache_last>>

\* L1Cache::remove
cache_remove(k) ==
    /\ cache_map' = [cache_map EXCEPT ![k] = <<>>]
    /\ cache_pending' = Without(cache_pending, k)
    /\ cache_admitted' = Without(cache_admitted, k)
    /\ cache_written' = [cache_written EXCEPT ![k] = <<>>]
    /\ cache_ret' = [op |-> "remove", key |-> k, out |-> <<>>]
    /\ UNCHANGED <<cache_asked, cache_sized, cache_last>>

\* L1Cache::stats: entry_count, the number of admitted entries.
cache_stats ==
    /\ cache_ret' = [op |-> "stats", key |-> 0, out |-> <<Len(cache_admitted)>>]
    /\ UNCHANGED <<cache_map, cache_pending, cache_admitted, cache_asked,
                   cache_written, cache_sized, cache_last>>

\* The maintenance takes the queued keys in order.
RECURSIVE Admit(_, _)
Admit(queue, st) ==
    IF queue = <<>> THEN st
    ELSE LET k == Head(queue)
             known == \E i \in DOMAIN st.admitted : st.admitted[i] = k
             victim == Head(st.admitted)
             next ==
                IF st.map[k] = <<>> \/ known THEN st
                ELSE IF Len(st.admitted) < CacheCap
                THEN [st EXCEPT !.admitted = Append(@, k)]
                ELSE IF k \in cache_asked /\ victim \notin cache_asked
                THEN [map |-> [st.map EXCEPT ![victim] = <<>>],
                      admitted |-> Append(Tail(st.admitted), k),
                      sized |-> st.sized \cup {victim}]
                ELSE [map |-> [st.map EXCEPT ![k] = <<>>],
                      admitted |-> st.admitted,
                      sized |-> st.sized \cup {k}]
         IN  Admit(Tail(queue), next)

\* The cache's maintenance (run by the cache itself, on its own schedule):
\* queued inserts are admitted or dropped, expired entries are removed.
run_pending_tasks ==
    LET st == Admit(cache_pending,
                    [map |-> cache_map, admitted |-> cache_admitted, sized |-> cache_sized])
        gone == {k \in CacheKeys : st.map[k] # <<>> /\ Expired(st.map[k][1])}
    IN  /\ cache_map' = [k \in CacheKeys |-> IF k \in gone THEN <<>> ELSE st.map[k]]
        /\ cache_admitted' = SelectSeq(st.admitted, LAMBDA x : x \notin gone)
        /\ cache_pending' = <<>>
        /\ cache_sized' = st.sized
        /\ cache_ret' = [op |-> "run_pending_tasks", key |-> 0, out |-> <<>>]
        /\ UNCHANGED <<cache_asked, cache_written, cache_last>>

\* A second passes.
cache_tick ==
    LET older(m) == [k \in CacheKeys |-> IF m[k] = <<>> THEN <<>> ELSE <<Older(m[k][1])>>]
    IN  /\ cache_map' = older(cache_map)
        /\ cache_written' = older(cache_written)
        /\ cache_ret' = [op |-> "tick", key |-> 0, out |-> <<>>]
        /\ UNCHANGED <<cache_pending, cache_admitted, cache_asked, cache_sized, cache_last>>

\* ----------------------------------------------------- UltraFastChannel
\* A crossbeam bounded(capacity) channel; the struct holds its only Sender and
\* its only Receiver. One thread sends, another receives.
VARIABLES
    chan_queue,         \* the messages in the channel, oldest first
    chan_pc,            \* the sending thread: "idle" or "sending" (inside send)
    chan_msg,           \* the message of the send in progress (0: none)
    chan_ret,           \* the last call that returned, and its result
    chan_sent,          \* history: the messages whose send returned, in order
    chan_got,           \* history: the messages received, in order
    chan_received       \* history: a receive has been called

chanvars == <<chan_queue, chan_pc, chan_msg, chan_ret, chan_sent, chan_got,
              chan_received>>

Messages == {1, 2}
\* The Sender handles in existence: the one the struct owns.
Senders == 1

InitChannel ==
    /\ chan_queue = <<>>
    /\ chan_pc = "idle"
    /\ chan_msg = 0
    /\ chan_ret = [op |-> "new", res |-> "Ok", out |-> <<>>]
    /\ chan_sent = <<>>
    /\ chan_got = <<>>
    /\ chan_received = FALSE

\* UltraFastChannel::send, entered: self.sender.send(message) is called.
SendCall(message) ==
    /\ chan_pc = "idle"
    /\ Len(chan_sent) < MaxSends
    /\ chan_pc' = "sending"
    /\ chan_msg' = message
    /\ UNCHANGED <<chan_queue, chan_ret, chan_sent, chan_got, chan_received>>

\* UltraFastChannel::send, returning: Sender::send waits until the channel has
\* room; the Receiver lives as long as the channel, so it never fails.
HasRoomAlways(queue) == TRUE
HasRoom(queue) == Len(queue) < ChanCap

SendReturn ==
    /\ chan_pc = "sending"
    /\ HasRoom(chan_queue)
    /\ chan_queue' = Append(chan_queue, chan_msg)
    /\ chan_sent' = Append(chan_sent, chan_msg)
    /\ chan_pc' = "idle"
    /\ chan_msg' = 0
    /\ chan_ret' = [op |-> "send", res |-> "Ok", out |-> <<>>]
    /\ UNCHANGED <<chan_got, chan_received>>

\* What the Receiver reports: a message, or that the channel is empty (the
\* timeout elapsed), or that it is empty and no Sender is left.
Receive(queue) ==
    IF queue # <<>> THEN [kind |-> "Msg", msg |-> Head(queue)]
    ELSE IF Senders = 0 THEN [kind |-> "Disconnected", msg |-> 0]
    ELSE [kind |-> "Empty", msg |-> 0]

\* The match of try_recv and of recv_timeout on the Receiver's result.
TryRecvMapStrict(r) ==
    IF r.kind = "Msg" THEN [res |-> "Ok", out |-> <<r.msg>>]
    ELSE [res |-> "Disconnected", out |-> <<>>]
TryRecvMap(r) ==
    IF r.kind = "Msg" THEN [res |-> "Ok", out |-> <<r.msg>>]
    ELSE IF r.kind = "Empty" THEN [res |-> "Ok", out |-> <<>>]
    ELSE [res |-> "Disconnected", out |-> <<>>]
TimeoutMap(r) ==
    IF r.kind = "Msg" THEN [res |-> "Ok", out |-> <<r.msg>>]
    ELSE IF r.kind = "Empty" THEN [res |-> "Ok", out |-> <<>>]
    ELSE [res |-> "Disconnected", out |-> <<>>]

Received(op, m) ==
    /\ chan_ret' = [op |-> op, res |-> m.res, out |-> m.out]
    /\ chan_queue' = IF m.out # <<>> THEN Tail(chan_queue) ELSE chan_queue
    /\ chan_got' = chan_got \o m.out
    /\ chan_received' = TRUE
    /\ UNCHANGED <<chan_pc, chan_msg, chan_sent>>

\* UltraFastChannel::try_recv
try_recv == Received("try_recv", TryRecvMap(Receive(chan_queue)))

\* UltraFastChannel::recv_timeout, returning with a message that was there or
\* arrived in time, or after the timeout without one.
recv_timeout == Received("recv_timeout", TimeoutMap(Receive(chan_queue)))

\* --------------------------------------------------- CacheAlignedCounters
\* Four AtomicU64 (here: integers modulo Word). Each atomic operation of a
\* call is a step of its thread; get_stats is called by a further thread.
VARIABLES
    trades_count,
    volume_total,
    price_updates,
    last_timestamp,
    ctr_pc,             \* thread -> "idle" or the next atomic operation of its call
    ctr_arg,            \* thread -> the arguments of its call
    ctr_spc,            \* get_stats: the number of counters loaded (0: not running)
    ctr_ret,            \* the CounterStats being assembled / last returned
    ctr_calls,          \* history: update_trade calls entered
    ctr_volume,         \* history: the sum of their volume arguments
    ctr_quiet           \* history: no update ran since get_stats was entered

ctrvars == <<trades_count, volume_total, price_updates, last_timestamp,
             ctr_pc, ctr_arg, ctr_spc, ctr_ret, ctr_calls, ctr_volume, ctr_quiet>>

Volumes == {1, Word - 1}
Timestamps == {1, 2}
NoStats == [trades_count |-> 0, volume_total |-> 0, price_updates |-> 0,
            last_timestamp |-> 0]

\* CacheAlignedCounters::new
InitCounters ==
    /\ trades_count = 0
    /\ volume_total = 0
    /\ price_updates = 0
    /\ last_timestamp = 0
    /\ ctr_pc = [t \in Threads |-> "idle"]
    /\ ctr_arg = [t \in Threads |-> [volume |-> 0, timestamp |-> 0]]
    /\ ctr_spc = 0
    /\ ctr_ret = NoStats
    /\ ctr_calls = 0
    /\ ctr_volume = 0
    /\ ctr_quiet = TRUE

\* AtomicU64::fetch_add: wrapping addition.
FetchAddOne(cur, n) == (cur + 1) % Word
FetchAdd(cur, n) == (cur + n) % Word

\* update_trade: self.trades_count.fetch_add(1, Relaxed)
TradeCount(t, volume, timestamp) ==
    /\ ctr_pc[t] = "idle"
    /\ ctr_calls + price_updates < MaxCalls
    /\ trades_count' = FetchAdd(trades_count, 1)
    /\ ctr_pc' = [ctr_pc EXCEPT ![t] = "volume"]
    /\ ctr_arg' = [ctr_arg EXCEPT ![t] = [volume |-> volume, timestamp |-> timestamp]]
    /\ ctr_calls' = ctr_calls + 1
    /\ ctr_volume' = ctr_volume + volume
    /\ ctr_quiet' = FALSE
    /\ UNCHANGED <<volume_total, price_updates, last_timestamp, ctr_spc, ctr_ret>>

\* update_trade: self.volume_total.fetch_add(volume, Relaxed)
TradeVolume(t) ==
    /\ ctr_pc[t] = "volume"
    /\ volume_total' = FetchAdd(volume_total, ctr_arg[t].volume)
    /\ ctr_pc' = [ctr_pc EXCEPT ![t] = "stamp"]
    /\ ctr_quiet' = FALSE
    /\ UNCHANGED <<trades_count, price_updates, last_timestamp, ctr_arg, ctr_spc,
                   ctr_ret, ctr_calls, ctr_volume>>

\* update_trade / update_price: self.last_timestamp.store(timestamp, Relaxed)
StoreStamp(t) ==
    /\ ctr_pc[t] = "stamp"
    /\ last_timestamp' = ctr_arg[t].timestamp
    /\ ctr_pc' = [ctr_pc EXCEPT ![t] = "idle"]
    /\ ctr_quiet' = FALSE
    /\ UNCHANGED <<trades_count, volume_total, price_updates, ctr_arg, ctr_spc,
                   ctr_ret, ctr_calls, ctr_volume>>

\* update_price: self.price_updates.fetch_add(1, Relaxed)
PriceCount(t, timestamp) ==
    /\ ctr_pc[t] = "idle"
    /\ ctr_calls + price_updates < MaxCalls
    /\ price_updates' = FetchAdd(price_updates, 1)
    /\ ctr_pc' = [ctr_pc EXCEPT ![t] = "stamp"]
    /\ ctr_arg' = [ctr_arg EXCEPT ![t] = [volume |-> 0, timestamp |-> timestamp]]
    /\ ctr_quiet' = FALSE
    /\ UNCHANGED <<trades_count, volume_total, last_timestamp, ctr_spc, ctr_ret,
                   ctr_calls, ctr_volume>>

\* get_stats: four relaxed loads, in the order of the struct literal.
get_stats ==
    /\ ctr_spc' = IF ctr_spc = 4 THEN 1 ELSE ctr_spc + 1
    /\ ctr_ret' =
        IF ctr_spc \in {0, 4} THEN [NoStats EXCEPT !.trades_count = trades_count]
        ELSE IF ctr_spc = 1 THEN [ctr_ret EXCEPT !.volume_total = volume_total]
        ELSE IF ctr_spc = 2 THEN [ctr_ret EXCEPT !.price_updates = price_updates]
        ELSE [ctr_ret EXCEPT !.last_timestamp = last_timestamp]
    /\ ctr_quiet' = IF ctr_spc \in {0, 4} THEN (\A t \in Threads : ctr_pc[t] = "idle")
                    ELSE ctr_quiet
    /\ UNCHANGED <<trades_count, volume_total, price_updates, last_timestamp,
                   ctr_pc, ctr_arg, ctr_calls, ctr_volume>>

\* ---------------------------------------------------------- NumaScheduler
VARIABLES
    numa_nodes,         \* topology.nodes: the ids of the detected nodes
    total_nodes,        \* topology.total_nodes
    current_node,       \* topology.current_node
    thread_assignments, \* service -> node, for the services assigned
    numa_ret            \* the last call and its result

numavars == <<numa_nodes, total_nodes, current_node, thread_assignments, numa_ret>>

\* The well-known services in the order of the policy, and one that is not.
ServiceList == <<"market_data_ingestion", "order_processing", "risk_calculation",
                 "portfolio_calculation", "technical_analysis", "news_processing">>
Services == {ServiceList[i] : i \in DOMAIN ServiceList} \cup {"reporting"}
\* The node directories found: ids 0..n-1, or the two ids 0 and 2.
NodeSets == {0..(n - 1) : n \in 1..MaxNodes} \cup {{0, 2}}

\* The node ids and the values of f a caller passes.
NodeIds == 0..MaxNodes
FValues == {1, 2}

\* A call and what it returned: out is the node answered or the value joined,
\* res the call's Result, bound the Result of the binding in the new thread.
NumaRet(op, service, node, out, res) ==
    [op |-> op, service |-> service, node |-> node, out |-> out, res |-> res,
     bound |-> "none", f |-> 0]

\* i % self.topology.total_nodes, for the i-th service counted from 0
RoundRobinNext(i, n) == (i + 1) % n
RoundRobin(i, n) == i % n

\* NumaScheduler::setup_trading_assignments
setup_trading_assignments(n) ==
    IF n < 2 THEN <<>>
    ELSE IF n = 2
    THEN [service \in {ServiceList[i] : i \in 1..4} |->
            IF service \in {"market_data_ingestion", "order_processing"} THEN 0 ELSE 1]
    ELSE IF n = 4
    THEN [service \in {ServiceList[i] : i \in 1..4} |->
            (CHOOSE i \in 1..4 : ServiceList[i] = service) - 1]
    ELSE [service \in {ServiceList[i] : i \in DOMAIN ServiceList} |->
            RoundRobin((CHOOSE i \in DOMAIN ServiceList : ServiceList[i] = service) - 1, n)]

\* NumaScheduler::new: the topology as detected (the nodes found, the node the
\* calling thread runs on, or 0 when getcpu fails), then the assignments.
numa_new(ids, current) ==
    /\ numa_nodes' = ids
    /\ total_nodes' = Cardinality(ids)
    /\ current_node' = current
    /\ thread_assignments' = setup_trading_assignments(Cardinality(ids))
    /\ numa_ret' = NumaRet("new", "none", 0, 0, "Ok")

InitNuma ==
    /\ numa_nodes = {0}
    /\ total_nodes = 1
    /\ current_node = 0
    /\ thread_assignments = <<>>
    /\ numa_ret = NumaRet("new", "none", 0, 0, "Ok")

\* NumaScheduler::get_node_for_service
get_node_for_service(service) ==
    /\ numa_ret' = NumaRet("get_node_for_service", service, 0,
                            IF service \in DOMAIN thread_assignments
                            THEN thread_assignments[service]
                            ELSE current_node, "Ok")
    /\ UNCHANGED <<numa_nodes, total_nodes, current_node, thread_assignments>>

\* if node_id >= self.topology.total_nodes { return Err(..) }
InvalidNodeAbove(node_id, n) == node_id > n
InvalidNode(node_id, n) == node_id >= n

\* The outcomes of bind_to_node: the node id is rejected, or the memory policy
\* and the affinity are set, each of which the kernel may refuse.
BindOutcomes(node_id) ==
    IF InvalidNode(node_id, total_nodes) THEN {"Invalid"} ELSE {"Ok", "Err"}

\* NumaScheduler::bind_to_node
bind_to_node(node_id) ==
    /\ \E r \in BindOutcomes(node_id) :
          numa_ret' = NumaRet("bind_to_node", "none", node_id, 0, r)
    /\ UNCHANGED <<numa_nodes, total_nodes, current_node, thread_assignments>>

\* The closure of the spawned thread: a failed binding is printed, then f runs
\* and its value is the thread's value.
ThreadBodyBound(bound, value) == IF bound = "Ok" THEN value ELSE 0
ThreadBody(bound, value) == value

\* NumaScheduler::spawn_on_node, f returning value, joined: the thread is not
\* created (the error is returned and f never runs), or it binds and runs f.
spawn_on_node(node_id, value) ==
    /\ \/ numa_ret' = NumaRet("spawn_on_node", "none", node_id, 0, "SpawnErr")
       \/ \E r \in BindOutcomes(node_id) :
             numa_ret' = [NumaRet("spawn_on_node", "none", node_id,
                                  ThreadBody(r, value), "Ok")
                            EXCEPT !.bound = r, !.f = value]
    /\ UNCHANGED <<numa_nodes, total_nodes, current_node, thread_assignments>>

\* ------------------------------------------- NumaScheduler::parse_cpu_list
VARIABLES
    parse_in,           \* the string handed to parse_cpu_list
    parse_ret           \* its Result: the CPUs on Ok

parsevars == <<parse_in, parse_ret>>

\* Strings are sequences of characters: digits, the two separators and a sign.
Digits == {"1", "3"}
Chars == Digits \cup {",", "-", "+"}
RECURSIVE StringsOf(_)
StringsOf(n) ==
    IF n = 0 THEN {<<>>}
    ELSE {Append(s, c) : s \in StringsOf(n - 1), c \in Chars}
Strings == UNION {StringsOf(n) : n \in 0..MaxStr}

DigitValue(c) == IF c = "1" THEN 1 ELSE 3

\* str::split(ch): the pieces between the occurrences of ch, empty ones included
RECURSIVE Split(_, _)
Split(s, ch) ==
    IF \A i \in DOMAIN s : s[i] # ch THEN <<s>>
    ELSE LET i == CHOOSE j \in DOMAIN s :
                     s[j] = ch /\ \A k \in 1..(j - 1) : s[k] # ch
         IN  <<SubSeq(s, 1, i - 1)>> \o Split(SubSeq(s, i + 1, Len(s)), ch)

\* The digits of a token as a number, most significant first.
RECURSIVE Decimal(_)
Decimal(tok) ==
    IF tok = <<>> THEN 0
    ELSE 10 * Decimal(SubSeq(tok, 1, Len(tok) - 1)) + DigitValue(tok[Len(tok)])

\* str::parse::<usize>: an optional '+', then at least one digit, and a value
\* that fits the word; -1 stands for the ParseIntError.
Unsigned(tok) == IF tok # <<>> /\ tok[1] = "+" THEN Tail(tok) ELSE tok
parse(tok) ==
    LET body == Unsigned(tok)
    IN  IF body = <<>> \/ \E i \in DOMAIN body : body[i] \notin Digits THEN -1
        ELSE IF Decimal(body) >= Word THEN -1
        ELSE Decimal(body)

Upto(start, end) == [i \in 1..(IF end >= start THEN end - start + 1 ELSE 0) |-> start + i - 1]

\* One piece of the list: <<"Ok", cpus>> or <<"Err", <<>>>>.
ParsePiece(range) ==
    IF \E i \in DOMAIN range : range[i] = "-"
    THEN LET parts == Split(range, "-")
         IN  IF Len(parts) # 2 THEN <<"Err", <<>>>>
             ELSE IF parse(parts[1]) < 0 \/ parse(parts[2]) < 0 THEN <<"Err", <<>>>>
             ELSE <<"Ok", Upto(parse(parts[1]), parse(parts[2]))>>
    ELSE IF parse(range) < 0 THEN <<"Err", <<>>>>
         ELSE <<"Ok", <<parse(range)>>>>

RECURSIVE ParsePieces(_, _)
ParsePieces(pieces, cpus) ==
    IF pieces = <<>> THEN [res |-> "Ok", cpus |-> cpus]
    ELSE LET r == ParsePiece(Head(pieces))
         IN  IF r[1] = "Err" THEN [res |-> "Err", cpus |-> <<>>]
             ELSE ParsePieces(Tail(pieces), cpus \o r[2])

\* NumaScheduler::parse_cpu_list
parse_cpu_list(cpulist) ==
    /\ parse_in' = cpulist
    /\ parse_ret' = ParsePieces(Split(cpulist, ","), <<>>)

InitParse ==
    /\ parse_in = <<"1">>
    /\ parse_ret = [res |-> "Ok", cpus |-> <<1>>]

\* -------------------------------------------------------------- UltraFastDB
VARIABLES
    db,                 \* the RocksDB key space: key bytes -> value bytes
    db_stored,          \* history: <<portfolio_id, timestamp>> -> the state stored last
    db_puts,            \* history: the number of stores
    db_ret              \* the last call and its result

dbvars == <<db, db_stored, db_puts, db_ret>>

\* Strings are their bytes. The portfolio ids "p" and "p:1".
Colon == <<58>>
PortfolioIds == {<<112>>, <<112, 58, 49>>}
StateTimestamps == {1, MaxStamp - 1, MaxStamp}
TotalValues == {1, 2}
PortfolioStates ==
    [portfolio_id : PortfolioIds, timestamp : StateTimestamps, total_value : TotalValues]

\* u64's Display: the decimal digits, most significant first.
RECURSIVE to_string(_)
to_string(n) ==
    IF n < 10 THEN <<48 + n>> ELSE to_string(n \div 10) \o <<48 + (n % 10)>>

\* format!("portfolio:{}:", portfolio_id)
PortfolioPrefix(portfolio_id) ==
    <<112, 111, 114, 116, 102, 111, 108, 105, 111>> \o Colon \o portfolio_id \o Colon
\* format!("portfolio:{}:{}", state.portfolio_id, state.timestamp)
PortfolioKey(state) == PortfolioPrefix(state.portfolio_id) \o to_string(state.timestamp)

\* msgpack::to_vec writes a struct as the array of its fields, from_slice
\* reads the fields back in the same order.
to_vec(state) == <<state.portfolio_id, state.timestamp, state.total_value>>
from_slice(data) == [portfolio_id |-> data[1], timestamp |-> data[2], total_value |-> data[3]]

\* The bytewise order of RocksDB's default comparator.
LexLess(a, b) ==
    \E i \in 1..(Len(b)) :
        /\ \A j \in 1..(i - 1) : j <= Len(a) /\ a[j] = b[j]
        /\ (i > Len(a) \/ a[i] < b[i])
starts_with(key, prefix) ==
    Len(key) >= Len(prefix) /\ SubSeq(key, 1, Len(prefix)) = prefix

RECURSIVE Ascending(_)
Ascending(keys) ==
    IF keys = {} THEN <<>>
    ELSE LET first == CHOOSE k \in keys : \A o \in keys : o = k \/ LexLess(k, o)
         IN  <<first>> \o Ascending(keys \ {first})

\* The loop of scan_prefix over the iterator: entries until the first key
\* that does not start with the prefix.
RECURSIVE TakePrefixed(_, _)
TakePrefixed(keys, prefix) ==
    IF keys = <<>> \/ ~starts_with(Head(keys), prefix) THEN <<>>
    ELSE <<<<Head(keys), from_slice(db[Head(keys)])>>>> \o TakePrefixed(Tail(keys), prefix)

\* UltraFastDB::scan_prefix: the iterator starts at the first key >= prefix.
scan_prefix(prefix) ==
    TakePrefixed(Ascending({k \in DOMAIN db : k = prefix \/ LexLess(prefix, k)}), prefix)

InitDB ==
    /\ db = <<>>
    /\ db_stored = <<>>
    /\ db_puts = 0
    /\ db_ret = [op |-> "new", id |-> <<>>, out |-> <<>>]

\* UltraFastDB::store_portfolio_state
store_portfolio_state(state) ==
    /\ db_puts < MaxStores
    /\ db_puts' = db_puts + 1
    /\ LET key == PortfolioKey(state)
       IN  db' = [k \in DOMAIN db \cup {key} |-> IF k = key THEN to_vec(state) ELSE db[k]]
    /\ LET at == <<state.portfolio_id, state.timestamp>>
       IN  db_stored' = [a \in DOMAIN db_stored \cup {at} |->
                            IF a = at THEN state ELSE db_stored[a]]
    /\ db_ret' = [op |-> "store_portfolio_state", id |-> state.portfolio_id, out |-> <<>>]

\* UltraFastDB::get_latest_portfolio_state: Some(state) is <<state>>, None <<>>.
get_latest_portfolio_state(portfolio_id) ==
    /\ LET states == scan_prefix(PortfolioPrefix(portfolio_id))
       IN  db_ret' = [op |-> "get_latest_portfolio_state", id |-> portfolio_id,
                      out |-> IF states = <<>> THEN <<>>
                              ELSE <<states[Len(states)][2]>>]
    /\ UNCHANGED <<db, db_stored, db_puts>>

\* ------------------------------------------------------- the whole program
auxvars == <<mavars, pavars, cachevars, chanvars, ctrvars, numavars, parsevars, dbvars>>
vars == <<corevars, auxvars>>

\* What a step of one component leaves alone.
notMA == <<corevars, pavars, cachevars, chanvars, ctrvars, numavars, parsevars, dbvars>>
notArray == <<corevars, mavars, cachevars, chanvars, ctrvars, numavars, parsevars, dbvars>>
notCache == <<corevars, mavars, pavars, chanvars, ctrvars, numavars, parsevars, dbvars>>
notChannel == <<corevars, mavars, pavars, cachevars, ctrvars, numavars, parsevars, dbvars>>
notCounters == <<corevars, mavars, pavars, cachevars, chanvars, numavars, parsevars, dbvars>>
notNuma == <<corevars, mavars, pavars, cachevars, chanvars, ctrvars, parsevars, dbvars>>
notParse == <<corevars, mavars, pavars, cachevars, chanvars, ctrvars, numavars, dbvars>>
notDB == <<corevars, mavars, pavars, cachevars, chanvars, ctrvars, numavars, parsevars>>

Init == InitLog /\ InitBook /\ InitManager /\ InitMA /\ InitArray /\ InitCache /\ InitChannel /\ InitCounters
        /\ InitNuma /\ InitParse /\ InitDB

NextBook ==
    \/ \E side \in Sides, price \in Prices, quantity \in Quantities :
          add_order([side |-> side, price |-> price, quantity |-> quantity])
          /\ UNCHANGED <<logvars, mgrvars, auxvars>>
    \/ \E side \in Sides, price \in Prices, quantity \in Quantities :
          remove_quantity(side, price, quantity) /\ UNCHANGED <<logvars, mgrvars, auxvars>>
    \/ clear /\ UNCHANGED <<logvars, mgrvars, auxvars>>

SpecBook == Init /\ [][NextBook]_vars

\* The book under orders of one unit, with the read-only calls.
NextQuery ==
    \/ \E side \in Sides, price \in Prices :
          add_order([side |-> side, price |-> price, quantity |-> 1])
          /\ UNCHANGED <<logvars, mgrvars, auxvars>>
    \/ \E side \in Sides, price \in Prices :
          remove_quantity(side, price, 1) /\ UNCHANGED <<logvars, mgrvars, auxvars>>
    \/ clear /\ UNCHANGED <<logvars, mgrvars, auxvars>>
    \/ bbo /\ UNCHANGED <<logvars, mgrvars, auxvars>>
    \/ \E depth \in Depths : snapshot(depth) /\ UNCHANGED <<logvars, mgrvars, auxvars>>
    \/ \E side \in Sides, depth \in Depths : vwap(side, depth) /\ UNCHANGED <<logvars, mgrvars, auxvars>>
    \/ book_stats /\ UNCHANGED <<logvars, mgrvars, auxvars>>

SpecQuery == Init /\ [][NextQuery]_vars

\* The manager's calls over two symbols.
NextManager ==
    \/ \E symbol \in Symbols :
          get_or_create_book(symbol) /\ UNCHANGED <<logvars, bookvars, auxvars>>
    \/ \E symbol \in Symbols, price \in {1, 2} :
          AddThroughRef(symbol, [side |-> "Buy", price |-> price, quantity |-> 1])
          /\ UNCHANGED <<logvars, bookvars, auxvars>>
    \/ \E symbol \in Symbols : get_book(symbol) /\ UNCHANGED <<logvars, bookvars, auxvars>>
    \/ get_symbols /\ UNCHANGED <<logvars, bookvars, auxvars>>
    \/ \E side \in Sides :
          manager_add_order([side |-> side, price |-> 1, quantity |-> 1])
          /\ UNCHANGED <<logvars, bookvars, auxvars>>
    \/ \E symbol \in Symbols, new_bids \in LevelLists, new_asks \in LevelLists :
          process_market_data(symbol, new_bids, new_asks)
          /\ UNCHANGED <<logvars, bookvars, auxvars>>

SpecManager == Init /\ [][NextManager]_vars

\* One producer, one consumer: appends of every length, each read back or not.
NextLog ==
    \/ \E n \in 1..(MaxLen + 1) :
          AppendReserve("p1", Payload(n, FirstByte("p1"))) /\ UNCHANGED <<bookvars, mgrvars, auxvars>>
    \/ AppendCheck("p1") /\ UNCHANGED <<bookvars, mgrvars, auxvars>>
    \/ AppendCopy("p1") /\ UNCHANGED <<bookvars, mgrvars, auxvars>>
    \/ AppendCount("p1") /\ UNCHANGED <<bookvars, mgrvars, auxvars>>
    \/ \E keep \in BOOLEAN : AppendReturn("p1", keep) /\ UNCHANGED <<bookvars, mgrvars, auxvars>>
    \/ /\ pc["p1"] = "a_done"
       /\ ReadAt("p1", BitAnd(loc["p1"].wp, mask), Len(loc["p1"].data))
       /\ UNCHANGED <<bookvars, mgrvars, auxvars>>
    \/ \E n \in {MaxLen, size} : advance_read_pos(n) /\ UNCHANGED <<bookvars, mgrvars, auxvars>>

SpecLog == Init /\ [][NextLog]_vars

\* Several producers at once, appending and batch-appending.
NextConc ==
    \/ \E t \in Threads :
          AppendReserve(t, Payload(MaxLen, FirstByte(t))) /\ UNCHANGED <<bookvars, mgrvars, auxvars>>
    \/ \E t \in Threads : AppendCheck(t) /\ UNCHANGED <<bookvars, mgrvars, auxvars>>
    \/ \E t \in Threads : AppendCopy(t) /\ UNCHANGED <<bookvars, mgrvars, auxvars>>
    \/ \E t \in Threads : AppendCount(t) /\ UNCHANGED <<bookvars, mgrvars, auxvars>>
    \/ \E t \in Threads : AppendReturn(t, FALSE) /\ UNCHANGED <<bookvars, mgrvars, auxvars>>
    \/ \E t \in Threads :
          BatchReserve(t, <<Payload(1, FirstByte(t)), Payload(MaxLen, FirstByte(t))>>)
          /\ UNCHANGED <<bookvars, mgrvars, auxvars>>
    \/ \E t \in Threads : BatchCheck(t) /\ UNCHANGED <<bookvars, mgrvars, auxvars>>
    \/ \E t \in Threads : BatchCopy(t) /\ UNCHANGED <<bookvars, mgrvars, auxvars>>
    \/ \E t \in Threads : BatchCount(t) /\ UNCHANGED <<bookvars, mgrvars, auxvars>>
    \/ \E t \in Threads : BatchReturn(t) /\ UNCHANGED <<bookvars, mgrvars, auxvars>>
    \/ advance_read_pos(size) /\ UNCHANGED <<bookvars, mgrvars, auxvars>>

SpecConc == Init /\ [][NextConc]_vars

\* One producer that appends and batch-appends, and a reader that advances.
NextBatch ==
    \/ AppendReserve("p1", Payload(MaxLen, FirstByte("p1"))) /\ UNCHANGED <<bookvars, mgrvars, auxvars>>
    \/ AppendCheck("p1") /\ UNCHANGED <<bookvars, mgrvars, auxvars>>
    \/ AppendCopy("p1") /\ UNCHANGED <<bookvars, mgrvars, auxvars>>
    \/ AppendCount("p1") /\ UNCHANGED <<bookvars, mgrvars, auxvars>>
    \/ AppendReturn("p1", FALSE) /\ UNCHANGED <<bookvars, mgrvars, auxvars>>
    \/ \E items \in Batches : BatchReserve("p1", items) /\ UNCHANGED <<bookvars, mgrvars, auxvars>>
    \/ BatchCheck("p1") /\ UNCHANGED <<bookvars, mgrvars, auxvars>>
    \/ BatchCopy("p1") /\ UNCHANGED <<bookvars, mgrvars, auxvars>>
    \/ BatchCount("p1") /\ UNCHANGED <<bookvars, mgrvars, auxvars>>
    \/ BatchReturn("p1") /\ UNCHANGED <<bookvars, mgrvars, auxvars>>
    \/ \E n \in {MaxLen, size} : advance_read_pos(n) /\ UNCHANGED <<bookvars, mgrvars, auxvars>>

SpecBatch == Init /\ [][NextBatch]_vars

\* read_at over the machine-word range, on a log one producer has written to.
ReadPositions == 0..size \cup {Word - 2, Word - 1}
ReadLengths == 0..(MaxLen + 1) \cup {size, Word - 1}
NextRead ==
    \/ AppendReserve("p1", Payload(MaxLen, FirstByte("p1"))) /\ UNCHANGED <<bookvars, mgrvars, auxvars>>
    \/ AppendCheck("p1") /\ UNCHANGED <<bookvars, mgrvars, auxvars>>
    \/ AppendCopy("p1") /\ UNCHANGED <<bookvars, mgrvars, auxvars>>
    \/ AppendCount("p1") /\ UNCHANGED <<bookvars, mgrvars, auxvars>>
    \/ AppendReturn("p1", FALSE) /\ UNCHANGED <<bookvars, mgrvars, auxvars>>
    \/ \E position \in ReadPositions, length \in ReadLengths :
          ReadAt("p1", position, length) /\ UNCHANGED <<bookvars, mgrvars, auxvars>>

SpecRead == Init /\ [][NextRead]_vars

\* Moving average: constructions, adds and reads of the average.
NextMA ==
    \/ \E p \in Periods : ma_new(p) /\ UNCHANGED notMA
    \/ \E value \in MAValues : add(value) /\ UNCHANGED notMA
    \/ current_average /\ UNCHANGED notMA

SpecMA == Init /\ [][NextMA]_vars

\* Price array: constructions, pushes, range updates and slices.
NextArray ==
    \/ \E c \in Capacities : pa_new(c) /\ UNCHANGED notArray
    \/ \E data \in MarketRecords : push(data) /\ UNCHANGED notArray
    \/ \E start_idx \in Starts, new_prices \in NewPrices :
          update_prices_vectorized(start_idx, new_prices) /\ UNCHANGED notArray
    \/ \E start \in Starts, len \in 0..MaxCap :
          get_prices_slice(start, len) /\ UNCHANGED notArray

SpecArray == Init /\ [][NextArray]_vars

\* Hot cache: calls, the cache's own maintenance, and the passing of time.
NextCache ==
    \/ \E k \in CacheKeys, v \in CacheValues : cache_insert(k, v) /\ UNCHANGED notCache
    \/ \E k \in CacheKeys : cache_get(k) /\ UNCHANGED notCache
    \/ \E k \in CacheKeys : cache_remove(k) /\ UNCHANGED notCache
    \/ cache_stats /\ UNCHANGED notCache
    \/ run_pending_tasks /\ UNCHANGED notCache
    \/ cache_tick /\ UNCHANGED notCache

SpecCache == Init /\ [][NextCache]_vars

\* Fast channel: a sending thread and a receiving thread.
NextChannel ==
    \/ \E message \in Messages : SendCall(message) /\ UNCHANGED notChannel
    \/ SendReturn /\ UNCHANGED notChannel
    \/ try_recv /\ UNCHANGED notChannel
    \/ recv_timeout /\ UNCHANGED notChannel

SpecChannel == Init /\ [][NextChannel]_vars

\* Counters: two updating threads and a thread reading the statistics.
NextCounters ==
    \/ \E t \in Threads, volume \in Volumes, timestamp \in Timestamps :
          TradeCount(t, volume, timestamp) /\ UNCHANGED notCounters
    \/ \E t \in Threads : TradeVolume(t) /\ UNCHANGED notCounters
    \/ \E t \in Threads : StoreStamp(t) /\ UNCHANGED notCounters
    \/ \E t \in Threads, timestamp \in Timestamps :
          PriceCount(t, timestamp) /\ UNCHANGED notCounters
    \/ get_stats /\ UNCHANGED notCounters

SpecCounters == Init /\ [][NextCounters]_vars

\* NUMA scheduler: detections of a topology and placement queries.
NextNuma ==
    \/ \E ids \in NodeSets : \E current \in {0} \cup ids :
          numa_new(ids, current) /\ UNCHANGED notNuma
    \/ \E service \in Services : get_node_for_service(service) /\ UNCHANGED notNuma
    \/ \E node_id \in NodeIds : bind_to_node(node_id) /\ UNCHANGED notNuma
    \/ \E node_id \in NodeIds : \E value \in FValues :
          spawn_on_node(node_id, value) /\ UNCHANGED notNuma

SpecNuma == Init /\ [][NextNuma]_vars

\* CPU lists: every string of the alphabet is parsed.
NextParse == \E cpulist \in Strings : parse_cpu_list(cpulist) /\ UNCHANGED notParse

SpecParse == Init /\ [][NextParse]_vars

\* Persistence: stores of portfolio states and reads of the latest one.
NextDB ==
    \/ \E state \in PortfolioStates : store_portfolio_state(state) /\ UNCHANGED notDB
    \/ \E portfolio_id \in PortfolioIds :
          get_latest_portfolio_state(portfolio_id) /\ UNCHANGED notDB

SpecDB == Init /\ [][NextDB]_vars

\* ----------------------------------------------------------------- claims

\* C1: a successful append never writes over bytes of an earlier successful
\* append that the read cursor has not advanced past.
C1_NoLiveOverwrite == ~clobbered

\* A thread whose append has passed the overlap test and will return its position.
InFlight(t) == pc[t] \in {"a_copy", "a_count", "a_bytes"}
Disjoint(p, n, q, m) == p + n <= q \/ q + m <= p

\* C2: the regions [position, position + length) of two appends that succeed
\* concurrently do not overlap (the reader being behind both reservations).
C2_ReservationsDisjoint ==
    \A t, u \in Threads :
        (t # u /\ InFlight(t) /\ InFlight(u)
            /\ read_pos <= loc[t].wp /\ read_pos <= loc[u].wp)
        => Disjoint(BitAnd(loc[t].wp, mask), Len(loc[t].data),
                    BitAnd(loc[u].wp, mask), Len(loc[u].data))

\* C3: with the reader at 0 and only appends of one length l issued, one after
\* another, the append reserved at cursor k*l fails with buffer full once
\* k*l > size - l.
C3_BufferFullLaw ==
    (/\ ret.op = "append" /\ ret.res \in {"Ok", "BufferFull"}
     /\ sizes = {ret.len} /\ read_pos = 0
     /\ ret.wp > size - ret.len)
    => ret.res = "BufferFull"

\* C4: an append of 1..size/4 bytes that finds size - (W - R) >= its length
\* returns a position, not buffer full.
C4_AppendWithRoom ==
    (/\ ret.op = "append" /\ ret.res \in {"Ok", "BufferFull"}
     /\ ret.wp >= ret.rp /\ size - (ret.wp - ret.rp) >= ret.len)
    => ret.res = "Ok"

\* C5: read_at(pos, len(X)) issued by the thread whose append of X has just
\* returned pos succeeds and returns X.
C5_RoundTrip ==
    (ret.op = "read_at" /\ ret.rt) => (ret.res = "Ok" /\ ret.data = ret.want)

\* The append (or the read-back of it) happened with both cursors past size
\* and room for the payload.
Wrapped(r) ==
    /\ r.wp > size /\ r.rp > size
    /\ r.wp >= r.rp /\ size - (r.wp - r.rp) >= r.len

\* C6: with W and R both past size and room for the payload, an append
\* succeeds at cursor mod size, and reading it back returns its bytes.
C6_WrapCorrect ==
    /\ (ret.op = "append" /\ ret.res \in {"Ok", "BufferFull"} /\ Wrapped(ret))
       => (ret.res = "Ok" /\ ret.pos = ret.wp % size)
    /\ (ret.op = "read_at" /\ ret.rt /\ Wrapped(ret))
       => (ret.res = "Ok" /\ ret.data = ret.want)

\* C7: once every producer has returned, writes_count is the number of records
\* appended by the calls that returned Ok and bytes_written the sum of their
\* lengths.
C7_CountersExact ==
    (\A t \in Threads : pc[t] = "idle")
    => (writes_count = appended.records /\ bytes_written = appended.bytes)

C7_Witness ==
    /\ \A t \in Threads : pc[t] = "idle"
    /\ ret.op = "batch_append" /\ ret.res = "BufferFull"
    /\ appended.records >= 3 /\ writes_count >= 3

\* C8: an append of more than size/4 bytes fails with data too large and
\* changes neither cursor, neither counter nor the region; no such append
\* gets a reservation.
C8_OversizeRejected ==
    [][/\ \A t \in Threads :
            (Idle(t) /\ pc'[t] = "a_check") => Len(loc'[t].data) <= size \div 4
       /\ (ret' # ret /\ ret'.op = "append" /\ ret'.len > size \div 4)
            => (/\ ret'.res = "DataTooLarge"
                /\ UNCHANGED <<mmap, write_pos, read_pos, writes_count, bytes_written>>)
      ]_vars

C8_Witness ==
    /\ ret.op = "append" /\ ret.res = "DataTooLarge" /\ ret.len = size \div 4 + 1
    /\ write_pos > 0 /\ writes_count > 0

\* C9: read_at(pos, len) fails when pos + len > size (a panic is taken as
\* failing too) and otherwise returns the len bytes of the region from pos; it
\* never reads outside the region.
C9_ReadAtBounds ==
    (ret.op = "read_at" /\ pc[ret.t] = "idle")
    => IF ret.pos + ret.len > size
       THEN ret.res \in {"ReadBeyond", "Panic"}
       ELSE /\ ret.res = "Ok"
            /\ ret.data = [i \in 1..ret.len |-> mmap[ret.pos + i - 1]]

\* C10: the cached best bid is the highest bid price (None on an empty side),
\* the cached best ask the lowest ask price, and bbo() reports those levels'
\* sizes.
C10_BestQuote ==
    /\ best_bid = (IF DOMAIN bids = {} THEN <<>> ELSE <<SetMax(DOMAIN bids)>>)
    /\ best_ask = (IF DOMAIN asks = {} THEN <<>> ELSE <<SetMin(DOMAIN asks)>>)
    /\ get_best_bid_offer.bid_price = best_bid
    /\ get_best_bid_offer.ask_price = best_ask
    /\ get_best_bid_offer.bid_size =
          (IF DOMAIN bids = {} THEN <<>> ELSE <<bids[SetMax(DOMAIN bids)].size>>)
    /\ get_best_bid_offer.ask_size =
          (IF DOMAIN asks = {} THEN <<>> ELSE <<asks[SetMin(DOMAIN asks)].size>>)

\* The best bid level has just been removed and a lower one took its place.
C10_Witness ==
    /\ book_ret.op = "remove_quantity" /\ book_ret.res = "Ok" /\ book_ret.side = "Buy"
    /\ best_bid # <<>> /\ best_bid[1] < book_ret.price
    /\ book_ret.price \notin DOMAIN bids

\* C11: whenever both sides of the book hold a level, the best bid is below
\* the best ask (the book is not crossed).
C11_NotCrossed ==
    (best_bid # <<>> /\ best_ask # <<>>) => best_bid[1] < best_ask[1]

\* The sums of the sizes of the levels of m with keys S, added up as f64 in
\* every order.
RECURSIVE LevelSums(_, _)
LevelSums(m, S) ==
    IF S = {} THEN {0}
    ELSE UNION {{FAdd(x, m[p].size) : x \in LevelSums(m, S \ {p})} : p \in S}

\* C12: total_bid_volume is the sum of the sizes of the bid levels and
\* total_ask_volume the sum of the sizes of the ask levels, after every
\* add_order, remove_quantity (successful or failed) and clear.
C12_VolumeAccounting ==
    /\ total_bid_volume \in LevelSums(bids, DOMAIN bids)
    /\ total_ask_volume \in LevelSums(asks, DOMAIN asks)

\* C13: every level present in bids or asks has size > 0; a level whose size
\* reaches 0 leaves the map in the operation that empties it.
C13_NoEmptyLevels ==
    /\ \A p \in DOMAIN bids : bids[p].size > 0
    /\ \A p \in DOMAIN asks : asks[p].size > 0

\* A removal has just taken the whole of an ask level, which left the map,
\* and another ask level is still there.
C13_Witness ==
    /\ book_ret.op = "remove_quantity" /\ book_ret.res = "Ok" /\ book_ret.side = "Sell"
    /\ book_ret.quantity > 1
    /\ book_ret.price \notin DOMAIN asks
    /\ DOMAIN asks # {}

\* The calls that change the book, and the read-only ones.
Mutators == {"add_order", "remove_quantity", "clear"}
Readers == {"bbo", "snapshot", "vwap", "stats"}

\* C14: every successful add_order, remove_quantity and clear raises the
\* sequence by exactly one, no call lowers it, and bbo, snapshot, vwap and
\* stats leave it as it is.
C14_SequenceMonotone ==
    [][ /\ sequence' >= sequence
        /\ (bookvars' # bookvars /\ book_ret'.op \in Mutators /\ book_ret'.res = "Ok")
              => sequence' = sequence + 1
        /\ (bookvars' # bookvars /\ book_ret'.op \in Readers)
              => sequence' = sequence ]_vars

\* stats() has just reported the sequence of a book that holds a bid after
\* two or more mutations.
C14_Witness ==
    /\ book_ret.op = "stats"
    /\ book_ret.out.sequence = sequence
    /\ sequence >= 2
    /\ DOMAIN bids # {}

\* The map of one side of the book.
SideMap(side) == IF side = "Buy" THEN bids ELSE asks

ClearView ==
    [bids |-> bids, asks |-> asks, bbo |-> get_best_bid_offer,
     bid_levels |-> get_statistics.bid_levels,
     ask_levels |-> get_statistics.ask_levels,
     total_bid_volume |-> get_statistics.total_bid_volume,
     total_ask_volume |-> get_statistics.total_ask_volume]

NoBbo ==
    [bid_price |-> <<>>, bid_size |-> <<>>, ask_price |-> <<>>, ask_size |-> <<>>,
     spread |-> <<>>, mid_price_x2 |-> <<>>]

\* C16: after clear() both sides are empty, bbo() has no bid or ask price,
\* size, spread or mid, and stats() reports zero volumes and zero levels; a
\* second clear() leaves all of these as they are.
C16_Clear ==
    [][ (book_ret'.op = "clear" /\ sequence' # sequence) =>
          /\ ClearView' = [bids |-> <<>>, asks |-> <<>>, bbo |-> NoBbo,
                           bid_levels |-> 0, ask_levels |-> 0,
                           total_bid_volume |-> 0, total_ask_volume |-> 0]
          /\ book_ret.op = "clear" => ClearView' = ClearView
        ]_vars

\* clear() has just emptied a book after two or more earlier mutations.
C16_Witness ==
    /\ book_ret.op = "clear"
    /\ sequence = MaxSeq
    /\ best_bid = <<>> /\ best_ask = <<>>

BestLevels(levels, m, side, n) ==
    /\ Len(levels) = n
    /\ \A i \in 1..Len(levels) :
          /\ levels[i].price \in DOMAIN m
          /\ levels[i] = m[levels[i].price]
    /\ \A i \in 1..(Len(levels) - 1) :
          IF side = "Buy" THEN levels[i].price > levels[i + 1].price
                          ELSE levels[i].price < levels[i + 1].price
    /\ \A p \in DOMAIN m :
          (\A i \in 1..Len(levels) : levels[i].price # p) =>
             \A i \in 1..Len(levels) :
                IF side = "Buy" THEN p < levels[i].price ELSE p > levels[i].price

MinOf(a, b) == IF a < b THEN a ELSE b

\* C18: snapshot(depth) returns the min(depth, number of bid levels) highest
\* bid levels in strictly descending price order and the min(depth, number of
\* ask levels) lowest ask levels in strictly ascending order, each with its
\* current size, and the book's current sequence; the book is left unchanged.
C18_Snapshot ==
    [][ book_ret'.op = "snapshot" =>
          /\ BestLevels(book_ret'.out.bids, bids', "Buy",
                        MinOf(book_ret'.depth, Cardinality(DOMAIN bids')))
          /\ BestLevels(book_ret'.out.asks, asks', "Sell",
                        MinOf(book_ret'.depth, Cardinality(DOMAIN asks')))
          /\ book_ret'.out.sequence = sequence'
          /\ UNCHANGED <<bids, asks, best_bid, best_ask, sequence,
                         total_bid_volume, total_ask_volume>>
      ]_vars

\* snapshot(1) has just cut a book of two bid levels and one ask level down
\* to the best of each side.
C18_Witness ==
    /\ book_ret.op = "snapshot" /\ book_ret.depth = 1
    /\ Cardinality(DOMAIN bids) = 2 /\ Cardinality(DOMAIN asks) = 1
    /\ Len(book_ret.out.bids) = 1 /\ Len(book_ret.out.asks) = 1
    /\ book_ret.out.bids[1].price = SetMax(DOMAIN bids)

\* The exact sums, over the first n of levels, of the sizes and of price * size.
RECURSIVE SumSize(_, _)
SumSize(levels, n) ==
    IF n = 0 THEN 0 ELSE SumSize(levels, n - 1) + levels[n].size
RECURSIVE SumPriceSize(_, _)
SumPriceSize(levels, n) ==
    IF n = 0 THEN 0
    ELSE SumPriceSize(levels, n - 1) + levels[n].price * levels[n].size

\* The best n levels of a side, best first.
TopLevels(side, n) ==
    LET all == LevelsOf(SideMap(side), DOMAIN SideMap(side), side)
    IN  SubSeq(all, 1, MinOf(n, Len(all)))

\* C19: vwap(side, depth) is null exactly when the best depth levels of the
\* side have no size (empty side or depth 0); otherwise the result v is the
\* one with v * (sum of sizes) = sum of price * size over those levels,
\* whenever that quotient is an f64 at all; a single level at price p gives p.
C19_Vwap ==
    book_ret.op = "vwap" =>
        LET top == TopLevels(book_ret.side, book_ret.depth)
            vol == SumSize(top, Len(top))
            sum == SumPriceSize(top, Len(top))
            scaled == sum * Pow2(FracBits)
        IN  /\ book_ret.out = <<>> <=> vol = 0
            /\ (vol > 0 /\ scaled % vol = 0 /\ IsFloat(scaled \div vol)) =>
                  book_ret.out[1] * vol = scaled
            /\ Len(top) = 1 => book_ret.out = <<top[1].price * Pow2(FracBits)>>

\* C20: get_or_create_book(symbol) creates an empty book on the first
\* reference to a symbol and returns the book as it stands on every later
\* one; get_book never creates a book; no manager call removes a symbol.
C20_Manager ==
    [][ /\ DOMAIN books \subseteq DOMAIN books'
        /\ mgr_ret'.op = "get_or_create_book" =>
              LET s == mgr_ret'.symbol
              IN  /\ DOMAIN books' = DOMAIN books \cup {s}
                  /\ \A other \in DOMAIN books \ {s} : books'[other] = books[other]
                  /\ mgr_ret'.out = books'[s]
                  /\ books'[s] = IF s \in DOMAIN books THEN books[s] ELSE NewBook(s)
        /\ mgr_ret'.op = "get_book" =>
              /\ books' = books
              /\ mgr_ret'.out # <<>> <=> mgr_ret'.symbol \in DOMAIN books
              /\ mgr_ret'.out # <<>> => mgr_ret'.out[1] = books[mgr_ret'.symbol]
      ]_mgrvars

\* get_or_create_book has just returned a book that orders had already been
\* added to, with the other symbol's book in place too.
C20_Witness ==
    /\ mgr_ret.op = "get_or_create_book"
    /\ DOMAIN books = Symbols
    /\ mgr_ret.out.sequence >= 2
    /\ mgr_ret.out.best_bid # <<>>
    /\ mgr_ret.out = books[mgr_ret.symbol]

\* ------------------------------------------------- claims: moving average
RECURSIVE SumOf(_)
SumOf(s) == IF s = <<>> THEN 0 ELSE s[1] + SumOf(Tail(s))

\* The last min(n, P) of the n inputs.
WindowOf(inputs, p) ==
    LET n == Len(inputs)
        k == IF n <= p THEN n ELSE p
    IN  SubSeq(inputs, n - k + 1, n)

\* The f64 sums of the elements of s at the indices S, added in any order.
RECURSIVE SeqSums(_, _)
SeqSums(s, S) ==
    IF S = {} THEN {0}
    ELSE UNION {{FAdd(x, s[i]) : x \in SeqSums(s, S \ {i})} : i \in S}

\* The f64 means of a window: its sum in any order of addition, or its exact
\* sum, divided by its length.
WindowMeans(w) ==
    {FDiv(x, Len(w)) : x \in SeqSums(w, DOMAIN w) \cup {SumOf(w)}}

\* C21 as stated: every add returns the mean of the last min(n, P) inputs,
\* in f64 whatever the order the window is summed in.
C21_WindowMean ==
    (ma_ret.op = "add" /\ ma_ret.res = "Ok")
        => ma_ret.avg \in WindowMeans(WindowOf(ma_inputs, ma_period))

\* C21 amended: as long as no update of the running sum has rounded, add
\* returns the f64 quotient of the sum of the last min(n, P) inputs by
\* min(n, P); current_average returns what the last add returned, and 0.0
\* when nothing was added.
C21_MovingAverage ==
    [][ /\ (ma_ret'.op = "add" /\ ma_ret'.res = "Ok" /\ ma_exact')
            => LET w == WindowOf(ma_inputs', ma_period')
               IN  ma_ret'.avg = FDiv(SumOf(w), Len(w))
        /\ (ma_ret'.op = "current_average")
            => ma_ret'.avg = (IF ma_inputs = <<>> THEN 0 ELSE ma_ret.avg)
      ]_vars

\* The window has slid past its first P inputs with every sum exact, and the
\* average read back is the one add returned.
C21_Witness ==
    /\ ma_ret.op = "current_average"
    /\ ma_period = 2
    /\ Len(ma_inputs) > ma_period
    /\ ma_exact
    /\ ma_inputs[Len(ma_inputs)] # ma_inputs[1]
    /\ ma_ret.avg = FDiv(SumOf(WindowOf(ma_inputs, ma_period)), ma_period)

\* --------------------------------------------------- claims: error policy
\* C22 as stated: no call panics or runs into undefined behaviour, and a
\* moving average constructed with period 0 is refused with InvalidArgument.
C22_ExplicitErrors ==
    /\ ma_ret.res # "Panic"
    /\ pa_ret.res \notin {"Panic", "Ub"}
    /\ (ma_ret.op = "new" /\ ma_period = 0) => ma_ret.res = "InvalidArgument"

\* ----------------------------------------------------- claims: price array
PaArrays == <<pa_prices, pa_volumes, pa_timestamps, pa_symbols>>

\* C23: length <= capacity always and only a construction sets the capacity;
\* a successful push stores the four fields of the record at the old length
\* and adds one to the length; a push at length = capacity fails and leaves
\* the arrays and the length as they were.
C23_PushCapacity ==
    [][ /\ pa_length' <= pa_capacity'
        /\ (pa_ret'.op # "new") => pa_capacity' = pa_capacity
        /\ (pa_ret'.op = "push" /\ pa_ret'.res = "Ok")
            => /\ pa_length < pa_capacity
               /\ pa_length' = pa_length + 1
               /\ pa_prices' = [pa_prices EXCEPT ![pa_length] = pa_ret'.data.price]
               /\ pa_volumes' = [pa_volumes EXCEPT ![pa_length] = pa_ret'.data.volume]
               /\ pa_timestamps' = [pa_timestamps EXCEPT ![pa_length] = pa_ret'.data.timestamp]
               /\ pa_symbols' = [pa_symbols EXCEPT ![pa_length] = pa_ret'.data.symbol]
        /\ (pa_ret'.op = "push" /\ pa_length = pa_capacity)
            => /\ pa_ret'.res = "Panic"
               /\ PaArrays' = PaArrays
               /\ pa_length' = pa_length
               /\ pa_wild' = pa_wild
      ]_vars

\* A push into a full array of two different records has panicked.
C23_Witness ==
    /\ pa_ret.op = "push"
    /\ pa_ret.res = "Panic"
    /\ pa_capacity = MaxCap
    /\ pa_length = pa_capacity
    /\ pa_symbols[0] # pa_symbols[1]
    /\ pa_volumes[1] = 10 * pa_prices[1]

\* C24 as stated: update_prices(start, new_prices) with start + n <= length
\* overwrites prices[start .. start+n) and nothing else; with start + n >
\* length, for every start and n of the machine word, it fails and changes
\* nothing.
C24_UpdateFrame ==
    [][ (pa_ret'.op = "update_prices")
        => LET start == pa_ret'.start
               new_prices == pa_ret'.prices
               n == Len(new_prices)
           IN  /\ UNCHANGED <<pa_capacity, pa_length, pa_volumes,
                              pa_timestamps, pa_symbols, pa_wild>>
               /\ IF start + n <= pa_length
                  THEN /\ pa_ret'.res = "Ok"
                       /\ pa_prices' =
                            [i \in DOMAIN pa_prices |->
                                IF start <= i /\ i < start + n
                                THEN new_prices[i - start + 1]
                                ELSE pa_prices[i]]
                  ELSE /\ pa_ret'.res = "Panic"
                       /\ pa_prices' = pa_prices
      ]_vars

\* ------------------------------------------------------ claims: hot cache
\* What get(k) is due when the last insert of k has not been removed: its value.
Due(k) == IF cache_written[k] = <<>> THEN <<>> ELSE <<cache_written[k][1].value>>

\* C25 as stated: within TTL and capacity, get(k) after insert(k, v) returns
\* v, and get(k) after remove(k) returns absent.
C25_GetAfterInsert ==
    [][ (cache_ret'.op = "get")
        => LET k == cache_ret'.key
           IN  /\ (cache_written[k] = <<>>) => cache_ret'.out = <<>>
               /\ (/\ cache_written[k] # <<>>
                   /\ cache_written[k][1].age < CacheTtl
                   /\ k \notin cache_sized)
                      => cache_ret'.out = Due(k)
      ]_vars

\* C25 amended: the value is returned when, besides, fewer than
\* ttl_seconds / 2 whole seconds have passed since the last insert or get of
\* the key; a key never inserted, or removed since, is absent.
C25_GetWhileFresh ==
    [][ (cache_ret'.op = "get")
        => LET k == cache_ret'.key
           IN  /\ (cache_written[k] = <<>>) => cache_ret'.out = <<>>
               /\ (/\ cache_written[k] # <<>>
                   /\ cache_written[k][1].age < CacheTtl
                   /\ cache_written[k][1].idle < CacheTtl \div 2
                   /\ k \notin cache_sized)
                      => cache_ret'.out = Due(k)
      ]_vars

\* A key inserted twice was read back a second later, inside its time to
\* idle, with the second value.
C25_Witness ==
    /\ cache_ret.op = "get"
    /\ cache_ret.out = <<2>>
    /\ cache_written[cache_ret.key] # <<>>
    /\ cache_written[cache_ret.key][1].age > 0
    /\ cache_written[cache_ret.key][1].idle = 0

\* C26 as stated: once the maintenance has run after the inserts, the entry
\* count is at most max_capacity and the key inserted last, still within its
\* time to live and idle and not removed, is returned by get.
C26_CapacityKeepsLast ==
    [][ /\ (cache_ret'.op = "stats" /\ cache_pending = <<>>)
            => cache_ret'.out[1] <= CacheCap
        /\ (/\ cache_ret'.op = "get"
            /\ cache_ret'.key = cache_last
            /\ cache_pending = <<>>
            /\ cache_written[cache_last] # <<>>
            /\ ~Expired(cache_written[cache_last][1]))
              => cache_ret'.out = Due(cache_last)
      ]_vars

\* ---------------------------------------------------- claims: fast channel
\* C27 as stated: with no receiver at work every send returns, also when the
\* channel already holds its capacity of messages: a send entered before any
\* receive was called finds room.
C27_SendCompletes ==
    (chan_pc = "sending" /\ ~chan_received) => Len(chan_queue) < ChanCap

\* C28: try_recv and recv_timeout hand out the oldest message sent and not yet
\* received when there is one; on an empty channel they return Ok(None) while
\* a sender exists and the disconnected error when none does.
C28_ReceiveOutcomes ==
    [][ (chan_ret'.op \in {"try_recv", "recv_timeout"} /\ chan_pc' = chan_pc)
        => /\ (chan_queue # <<>>)
                => /\ chan_ret'.res = "Ok"
                   /\ chan_ret'.out = <<chan_sent[Len(chan_got) + 1]>>
                   /\ chan_queue' = Tail(chan_queue)
           /\ (chan_queue = <<>> /\ Senders > 0)
                => /\ chan_ret'.res = "Ok"
                   /\ chan_ret'.out = <<>>
                   /\ chan_queue' = <<>>
           /\ (chan_queue = <<>> /\ Senders = 0)
                => chan_ret'.res = "Disconnected"
      ]_vars

\* Two different messages were received in the order they were sent and a
\* further try_recv found the channel empty.
C28_Witness ==
    /\ chan_ret = [op |-> "try_recv", res |-> "Ok", out |-> <<>>]
    /\ Len(chan_got) >= 2
    /\ chan_got[1] # chan_got[2]
    /\ chan_got = chan_sent

\* ------------------------------------------------------- claims: counters
\* get_stats has returned, and every update call had returned before it was
\* entered.
StatsAfterUpdates == ctr_spc = 4 /\ ctr_quiet

\* C29 as stated: the statistics read after the update_trade calls have
\* completed hold the number of calls and the sum of their volumes.
C29_NoLostUpdates ==
    StatsAfterUpdates
        => /\ ctr_ret.trades_count = ctr_calls
           /\ ctr_ret.volume_total = ctr_volume

\* C29 amended: they hold the number of calls and the sum of the volumes
\* modulo the width of the counters; and a step of update_price changes
\* neither trades_count nor volume_total.
C29_NoLostUpdatesWrapping ==
    [][ /\ StatsAfterUpdates'
            => /\ ctr_ret'.trades_count = ctr_calls' % Word
               /\ ctr_ret'.volume_total = ctr_volume' % Word
        /\ (price_updates' # price_updates \/ \E t \in Threads :
                ctr_pc[t] = "stamp" /\ ctr_pc'[t] = "idle" /\ ctr_arg[t].volume = 0)
            => /\ trades_count' = trades_count
               /\ volume_total' = volume_total
      ]_vars

\* Both threads have traded, with volumes whose sum wraps, there was a price
\* update, and the statistics read afterwards show the two trades.
C29_Witness ==
    /\ StatsAfterUpdates
    /\ ctr_ret.trades_count = 2
    /\ ctr_ret.price_updates = 1
    /\ ctr_volume = Word
    /\ ctr_ret.volume_total = 0
    /\ \A t \in Threads : ctr_arg[t].timestamp > 0

\* ----------------------------------------------------------- claims: NUMA
IndexOf(service) == (CHOOSE i \in DOMAIN ServiceList : ServiceList[i] = service) - 1

\* C30: get_node_for_service answers the current node for every service on a
\* single node; nodes 0, 0, 1, 1 for the first four services on two nodes;
\* nodes 0, 1, 2, 3 for them on four nodes; and node i mod N for the i-th of
\* the six services on N > 4 nodes.
C30_Placement ==
    (numa_ret.op = "get_node_for_service")
        => LET service == numa_ret.service
               known == \E i \in DOMAIN ServiceList : ServiceList[i] = service
               first4 == known /\ IndexOf(service) < 4
           IN  /\ (total_nodes = 1) => numa_ret.out = current_node
               /\ (total_nodes = 2 /\ first4)
                    => numa_ret.out = (IF IndexOf(service) < 2 THEN 0 ELSE 1)
               /\ (total_nodes = 4 /\ first4) => numa_ret.out = IndexOf(service)
               /\ (total_nodes > 4 /\ known)
                    => numa_ret.out = IndexOf(service) % total_nodes

\* On five nodes the sixth service was asked for and wrapped round to node 0.
C30_Witness ==
    /\ numa_ret.op = "get_node_for_service"
    /\ numa_ret.service = "news_processing"
    /\ total_nodes = 5
    /\ current_node # 0
    /\ numa_ret.out = 0

\* C31: bind_to_node returns an error for a node id >= total_nodes, and a
\* thread spawn_on_node created runs f to completion and hands f's value to the
\* join handle whether the binding in the new thread succeeded or failed.
C31_BindNotFatal ==
    /\ (numa_ret.op = "bind_to_node" /\ numa_ret.node >= total_nodes)
          => numa_ret.res = "Invalid"
    /\ (numa_ret.op = "spawn_on_node" /\ numa_ret.res = "Ok")
          => numa_ret.out = numa_ret.f

\* A thread was spawned on a node that does not exist: the binding was
\* rejected and f's value still came back.
C31_Witness ==
    /\ numa_ret.op = "spawn_on_node"
    /\ numa_ret.res = "Ok"
    /\ numa_ret.node >= total_nodes
    /\ numa_ret.bound = "Invalid"
    /\ numa_ret.out = 2

\* C39: on every topology and for every service, known or not,
\* get_node_for_service answers a node id below total_nodes, which is what
\* bind_to_node accepts.
C39_AnswerBindable ==
    (numa_ret.op = "get_node_for_service") => ~InvalidNode(numa_ret.out, total_nodes)

\* The grammar list ::= range (',' range)*, range ::= int ('-' int)?, with int
\* a non-empty run of digits, and the CPUs a matching string stands for.
IsInt(tok) == tok # <<>> /\ \A i \in DOMAIN tok : tok[i] \in Digits
IsRange(piece) ==
    LET parts == Split(piece, "-")
    IN  Len(parts) \in {1, 2} /\ \A i \in DOMAIN parts : IsInt(parts[i])
InGrammar(s) == LET pieces == Split(s, ",") IN \A i \in DOMAIN pieces : IsRange(pieces[i])
RangeCpus(piece) ==
    LET parts == Split(piece, "-")
    IN  IF Len(parts) = 1 THEN <<Decimal(parts[1])>>
        ELSE Upto(Decimal(parts[1]), Decimal(parts[2]))
RECURSIVE ListCpus(_)
ListCpus(pieces) ==
    IF pieces = <<>> THEN <<>> ELSE RangeCpus(Head(pieces)) \o ListCpus(Tail(pieces))

\* C32: parse_cpu_list returns, in input order, the CPUs of each range of a
\* string of the grammar, and an error for every string outside the grammar.
C32_ParseGrammar ==
    IF InGrammar(parse_in)
    THEN parse_ret = [res |-> "Ok", cpus |-> ListCpus(Split(parse_in, ","))]
    ELSE parse_ret.res = "Err"

\* C33: every successful append or batch_append copies its bytes into offsets
\* [0, S) of the mapping only: no copy runs past the end of the mapping, and a
\* successful append's region pos .. pos + len - 1 ends inside it.
C33_CopyInsideMapping ==
    /\ fault = "none"
    /\ (ret.op = "append" /\ ret.res = "Ok") => ~Overruns(ret.pos, ret.len)

\* C34: in every state reachable through append, batch_append and
\* advance_read_pos, 0 <= W - R <= S, and available_space() is S - (W - R), a
\* value between 0 and S.
C34_Occupancy ==
    /\ 0 <= write_pos - read_pos
    /\ write_pos - read_pos <= size
    /\ available_space = size - (write_pos - read_pos)
    /\ available_space \in 0..size

\* C35: an append or batch_append that fails with buffer full leaves the write
\* cursor where it was when the call was entered.
C35_FailedKeepsCursor ==
    [][\A t \in Threads :
          (pc[t] \in {"a_check", "b_check"} /\ pc'[t] = "idle" /\ ret'.res = "BufferFull")
              => write_pos' = loc[t].wp]_vars

\* The items appended one by one by a single producer that sees the read
\* cursor at rp: append's size check, reservation, overlap test, copy and
\* counters, item after item.
AppendOne(st, rp, data) ==
    IF TooLarge(data) THEN st
    ELSE IF would_overlap(BitAnd(st.W, mask), Len(data), rp)
         THEN [st EXCEPT !.W = st.W + Len(data)]
         ELSE [W |-> st.W + Len(data),
               m |-> CopyInto(st.m, BitAnd(st.W, mask), data),
               wc |-> st.wc + 1,
               bw |-> st.bw + Len(data)]
RECURSIVE OneByOne(_, _, _)
OneByOne(st, rp, items) ==
    IF items = <<>> THEN st
    ELSE OneByOne(AppendOne(st, rp, Head(items)), rp, Tail(items))

\* The steps of a batch_append of thread t that passed its overlap test, each
\* compared with the appends one by one from the same cursor, region and counters.
BatchAsAppends(t) ==
    LET items == loc[t].items
        one == OneByOne([W |-> loc[t].wp, m |-> mmap, wc |-> writes_count,
                         bw |-> bytes_written], loc[t].rp, items)
    IN  /\ (pc[t] = "b_copy" /\ pc'[t] = "b_count")
            => (mmap' = one.m /\ write_pos = one.W)
        /\ (pc[t] = "b_count" /\ pc'[t] = "b_bytes") => writes_count' = one.wc
        /\ (pc[t] = "b_bytes" /\ pc'[t] = "idle")
            => /\ bytes_written' = one.bw
               /\ Len(ret'.poss) = Len(items)
               /\ ret'.poss[1] = loc[t].wp % size
               /\ \A i \in 1..(Len(items) - 1) :
                     ret'.poss[i + 1] = (ret'.poss[i] + Len(items[i])) % size

\* C36 as stated: a successful batch_append returns one position per item,
\* the first W_before mod S and each next one the previous plus the item's
\* length mod S, and leaves W, the region and the counters as the appends of
\* the items one by one would.
C36_BatchAsAppends ==
    [][\A t \in Threads : BatchAsAppends(t)]_vars

\* C36, for batches whose items are each at most S/4 long: the same.
C36_BatchAsAppendsOfRecords ==
    [][\A t \in Threads :
          (\A i \in DOMAIN loc[t].items : ~TooLarge(loc[t].items[i]))
              => BatchAsAppends(t)]_vars

\* A batch of two items was placed across the wrap point and returned.
C36_Witness ==
    /\ ret.op = "batch_append"
    /\ ret.res = "Ok"
    /\ ret.poss = <<size - 1, 0>>
    /\ fault = "none"

\* C37: a remove_quantity that fails, for a missing level or for insufficient
\* size, leaves the levels, the cached best bid and ask, the cumulative
\* volumes and the sequence as they were.
C37_FailedRemoveFrame ==
    [][(book_ret'.op = "remove_quantity" /\ book_ret'.res # "Ok")
          => UNCHANGED <<bids, asks, best_bid, best_ask,
                         total_bid_volume, total_ask_volume, sequence>>]_vars

\* The levels of map m other than the one at price are the same in n.
OtherLevelsKept(m, n, price) ==
    /\ DOMAIN m \ {price} = DOMAIN n \ {price}
    /\ \A p \in DOMAIN m \ {price} : n[p] = m[p]

\* C38: add_order and remove_quantity on one side leave the other side's
\* levels, cached best price and cumulative volume unchanged, and leave every
\* level of their own side at another price unchanged.
C38_SideFrame ==
    [][(book_ret'.op \in {"add_order", "remove_quantity"})
          => IF book_ret'.side = "Buy"
             THEN /\ UNCHANGED <<asks, best_ask, total_ask_volume>>
                  /\ OtherLevelsKept(bids, bids', book_ret'.price)
             ELSE /\ UNCHANGED <<bids, best_bid, total_bid_volume>>
                  /\ OtherLevelsKept(asks, asks', book_ret'.price)]_vars

\* A removal emptied a bid level and dropped it while another bid level stayed.
C38_Witness ==
    /\ book_ret.op = "remove_quantity"
    /\ book_ret.res = "Ok"
    /\ book_ret.side = "Buy"
    /\ book_ret.price \notin DOMAIN bids
    /\ \E p \in DOMAIN bids : p < book_ret.price

\* The states stored for a portfolio, and the one stored with the greatest timestamp.
StoredFor(portfolio_id) ==
    {db_stored[a] : a \in {b \in DOMAIN db_stored : b[1] = portfolio_id}}
LatestFor(portfolio_id) ==
    CHOOSE state \in StoredFor(portfolio_id) :
        \A other \in StoredFor(portfolio_id) : other.timestamp <= state.timestamp

\* C40: get_latest_portfolio_state(id) returns the state stored for id with
\* the numerically greatest timestamp, and none when no state was stored for id.
C40_LatestState ==
    (db_ret.op = "get_latest_portfolio_state")
        => db_ret.out = (IF StoredFor(db_ret.id) = {} THEN <<>>
                         ELSE <<LatestFor(db_ret.id)>>)
====
